---- MODULE Spec2Model ----
(***************************************************************************)
(* The trigger-processing engine of rustitions (a port of the Python       *)
(* "transitions" state machine library).                                   *)
(*                                                                         *)
(* Functions that have a Rust body (Transition::execute,                   *)
(* Transition::eval_conditions, Transition::change_state, State::enter,    *)
(* State::exit, Machine::callbacks) are modelled from that body.  Functions*)
(* whose Rust body is still a stub are modelled from the reference body    *)
(* that the source file carries in the comments of that function           *)
(* (Event::machine_trigger, Event::_process, Machine::_process,            *)
(* Machine::set_state).                                                    *)
(*                                                                         *)
(* A callback is host code: once invoked it may return, raise, or call     *)
(* trigger() on the machine any number of times before it returns.  A      *)
(* predicate is a pure host function whose value is fixed for a run.       *)
(***************************************************************************)
EXTENDS Integers, Sequences, FiniteSets, TLC

VARIABLES
    machine,           \* Machine: queued, ignore_invalid_triggers, machine-wide callback lists
    states,            \* Machine.states: name -> State
    events,            \* Machine.events: trigger name -> (source name -> list of Transition)
    pred,              \* the host's predicates: ConditionFunction name -> the value it returns
    modelState,        \* the current-state attribute of each bound model
    transition_queue,  \* Machine._transition_queue
    stack,             \* the call stack of event pipelines in flight (last = innermost)
    calls,             \* number of trigger() calls made so far; a call's id is its rank
    order,             \* the ids of the trigger() calls whose pipeline has started, in order
    done,              \* the ids of the trigger() calls whose pipeline has returned
    lastRet,           \* the last return of a trigger() call to its caller
    raises,            \* number of times a callback has raised so far
    outcomes,          \* what the pipeline of each returned trigger() call came to
    drainer,           \* id of the trigger() call running the drain loop, 0 when none
    stateOrder,        \* the keys of Machine.states in insertion order
    lastCall,          \* the last registration call: its arguments and what it came to
    prevEvents         \* Machine.events as it was before the last registration call

vars == <<machine, states, events, pred, modelState, transition_queue, stack,
          calls, order, done, lastRet, raises, outcomes, drainer,
          stateOrder, lastCall, prevEvents>>

\* Total number of trigger() calls (by the host or by callbacks) in one run.
MaxCalls == 3

\* Total number of times a callback raises in one run.
MaxRaises == 1

\* Number of pipelines nested in one another (a callback of the innermost
\* of MaxDepth pipelines makes no trigger() call).
MaxDepth == 2

StateNames == {"A", "B", "C"}
EventNames == {"go", "back"}
Models == {"m"}
PredNames == {"c1", "c2"}
NoDest == "None"
NoError == "none"
MachineError == "MachineError"
CallbackError == "CallbackError"
RegisteredStateError == "RegisteredStateError"

----------------------------------------------------------------------------
(* Constructors *)

Condition(func, target) == [func |-> func, target |-> target]

Transition(source, dest, conditions, unless, before, after, prepare) ==
    [source |-> source, dest |-> dest, conditions |-> conditions, unless |-> unless,
     before |-> before, after |-> after, prepare |-> prepare]

\* ignore_invalid_triggers of a state is <<>> (not set) or <<b>>.
State(name, on_enter, on_exit, ignore) ==
    [name |-> name, on_enter |-> on_enter, on_exit |-> on_exit,
     ignore_invalid_triggers |-> ignore]

\* The machine the engine is exercised on.
InitStates ==
    [s \in StateNames |->
        CASE s = "A" -> State("A", <<>>, <<"xA">>, <<>>)
          [] s = "B" -> State("B", <<"nB">>, <<>>, <<>>)
          [] s = "C" -> State("C", <<>>, <<>>, <<TRUE>>)]

InitEvents ==
    [e \in EventNames |-> [s \in StateNames |->
        CASE e = "go" /\ s = "A" ->
                <<Transition("A", "B", <<Condition("c1", TRUE)>>, <<>>,
                             <<"tb">>, <<"ta">>, <<"tp">>),
                  Transition("A", "C", <<>>, <<Condition("c2", FALSE)>>,
                             <<"tb">>, <<"ta">>, <<>>),
                  Transition("A", NoDest, <<>>, <<>>, <<"tb">>, <<"ta">>, <<"tp">>)>>
          [] e = "go" /\ s = "B" ->
                <<Transition("B", NoDest, <<Condition("c2", TRUE)>>, <<>>,
                             <<"tb">>, <<"ta">>, <<>>)>>
          [] e = "back" /\ s = "B" ->
                <<Transition("B", "A", <<>>, <<>>, <<>>, <<>>, <<>>)>>
          [] e = "back" /\ s = "C" ->
                <<Transition("C", "A", <<Condition("c2", TRUE)>>, <<>>,
                             <<"tb">>, <<"ta">>, <<>>)>>
          [] OTHER -> <<>>]]

InitMachine(q) ==
    [queued |-> q, ignore_invalid_triggers |-> FALSE,
     prepare_event |-> <<"gp">>, before_state_change |-> <<"gb">>,
     after_state_change |-> <<"ga">>, finalize_event |-> <<"gf">>]

----------------------------------------------------------------------------
(* The pipeline of one event: a frame *)

\* A frame is one run of Event::machine_trigger and Event::_process.
\* state is event_data.state, cands the candidate list being iterated,
\* idx the position in it, cbs the callbacks still to run in the current
\* phase, cds the conditions still to check, incb whether a callback is
\* running.  log is what this pipeline did, state0 the model's state when
\* it started, nested whether a pipeline nested in it wrote the model's
\* state.
NewFrame(id, e, m, caller) ==
    [id |-> id, ev |-> e, model |-> m, caller |-> caller, pc |-> "trigger",
     state |-> "", state0 |-> "", cands |-> <<>>, idx |-> 0, cbs |-> <<>>,
     cds |-> <<>>, incb |-> FALSE, result |-> FALSE, error |-> NoError,
     log |-> <<>>, nested |-> FALSE]

Top == stack[Len(stack)]
Front(s) == SubSeq(s, 1, Len(s) - 1)
SetTop(f) == Front(stack) \o <<f>>
Trans(f) == f.cands[f.idx]

Entry(f, kind, name) == [idx |-> f.idx, kind |-> kind, name |-> name]
Logged(f, kind, name) == [f EXCEPT !.log = Append(f.log, Entry(f, kind, name))]

CallbackPhases == {"prepare_event", "prepare", "before", "exit", "enter", "after", "finalize"}
\* Phases inside the try block of Event::_process.
TryPhases == {"prepare", "conditions", "before", "exit", "enter", "after"}

\* An error handler without the finally block.
RaiseNoFinally(f, err) ==
    [f EXCEPT !.error = err, !.incb = FALSE, !.cbs = <<>>, !.cds = <<>>, !.pc = "ret"]

\* An error handler that records the error and lets the pipeline go on.
RaiseGoesOn(f, err) ==
    [f EXCEPT !.error = err, !.incb = FALSE, !.cbs = <<>>, !.cds = <<>>]

\* A finally block without the except clause: the error is not recorded.
RaiseUnrecorded(f, err) ==
    IF f.pc \in TryPhases
    THEN [f EXCEPT !.incb = FALSE, !.cbs = machine.finalize_event,
                   !.cds = <<>>, !.pc = "finalize"]
    ELSE [f EXCEPT !.error = err, !.incb = FALSE, !.cbs = <<>>, !.cds = <<>>, !.pc = "ret"]

\* An error reaches the pipeline of frame f at its current position:
\* inside the try block it is recorded and the finally block runs the
\* finalize_event callbacks; outside it, it propagates to the caller.
Raise(f, err) ==
    IF f.pc \in TryPhases
    THEN [f EXCEPT !.error = err, !.incb = FALSE, !.cbs = machine.finalize_event,
                   !.cds = <<>>, !.pc = "finalize"]
    ELSE [f EXCEPT !.error = err, !.incb = FALSE, !.cbs = <<>>, !.cds = <<>>, !.pc = "ret"]

----------------------------------------------------------------------------
(* Condition and Transition *)

\* A check that every predicate passes.
ConditionCheckAlways(c) == TRUE

\* Condition::check: the predicate's value compared with the target.
ConditionCheck(c) == pred[c.func] = c.target

\* Prepare callbacks that take in the machine's prepare_event callbacks.
PrepareCallbacksWithEvent(t) == machine.prepare_event \o t.prepare

\* Transition::execute: the callbacks run before the guards.
PrepareCallbacks(t) == t.prepare

\* The guards Transition::eval_conditions iterates over, in order.
EvalList(t) == t.conditions

\* Transition::execute: the callbacks run before the state change.
BeforeCallbacks(t) == machine.before_state_change \o t.before

\* After callbacks in the same nesting order as the before callbacks.
AfterCallbacksGlobalFirst(t) == machine.after_state_change \o t.after

\* Transition::execute: the callbacks run after the state change.
AfterCallbacks(t) == t.after \o machine.after_state_change

\* change_state called without looking at dest.
HasDestAlways(t) == TRUE

\* A transition that never changes the state.
HasDestNever(t) == FALSE

\* Transition::execute: whether change_state is called.
HasDest(t) == t.dest # NoDest

\* Exiting the destination instead of the source.
ExitStateDest(t) == t.dest

\* Transition::change_state: the state that is exited.
ExitState(t) == t.source

\* A state change that sets and enters the source again.
EnterStateSource(t) == t.source

\* Transition::change_state: the state that is set and entered.
EnterState(t) == t.dest

\* A loop body that records the result but does not break.
AfterExecuteNoBreak(f, r) ==
    [f EXCEPT !.result = f.result \/ r, !.idx = f.idx + 1, !.pc = "loop"]

\* A loop body that sets the result before looking at what execute returned.
AfterExecuteResultFirst(f, r) ==
    IF r
    THEN [f EXCEPT !.result = TRUE, !.cbs = machine.finalize_event, !.pc = "finalize"]
    ELSE [f EXCEPT !.result = TRUE, !.idx = f.idx + 1, !.pc = "loop"]

\* Event::_process, the loop body after trans.execute returned r:
\* true sets the result and breaks (the finally block then runs the
\* finalize_event callbacks), false moves on to the next candidate.
AfterExecute(f, r) ==
    IF r
    THEN [f EXCEPT !.result = TRUE, !.cbs = machine.finalize_event, !.pc = "finalize"]
    ELSE [f EXCEPT !.idx = f.idx + 1, !.pc = "loop"]

\* An ignore flag that looks at the machine's default only.
EffectiveIgnoreMachineOnly(st) == machine.ignore_invalid_triggers

\* An ignore flag that either level can switch on.
EffectiveIgnoreEither(st) ==
    \/ states[st].ignore_invalid_triggers = <<TRUE>>
    \/ machine.ignore_invalid_triggers

\* Event::machine_trigger: the effective ignore flag for an invalid trigger.
EffectiveIgnore(st) ==
    IF states[st].ignore_invalid_triggers # <<>>
    THEN states[st].ignore_invalid_triggers[1]
    ELSE machine.ignore_invalid_triggers

----------------------------------------------------------------------------
(* Machine::_process *)

\* _process that always uses the queue, whatever the mode.
ProcessModeAlwaysQueue(q, queue) ==
    IF Len(queue) + 1 > 1 THEN "queued" ELSE "drain"

\* _process that never uses the queue, whatever the mode.
ProcessModeNeverQueue(q, queue) ==
    IF queue = <<>> THEN "run" ELSE "error"

\* What _process does with a trigger, given the mode and the queue before
\* the call: run it now, refuse it, enqueue it and return, or enqueue it
\* and drain the queue.
ProcessMode(q, queue) ==
    IF ~q
    THEN IF queue = <<>> THEN "run" ELSE "error"
    ELSE IF Len(queue) + 1 > 1 THEN "queued" ELSE "drain"

\* A drain loop that executes the newest entry.
DrainNextLast(queue) == queue[Len(queue)]

\* The queue entry the drain loop executes: self._transition_queue[0].
DrainNext(queue) == queue[1]

\* A popleft that drops every pending entry with the one that ran.
PopLeftAll(queue) == <<>>

\* popleft after the entry ran.
PopLeft(queue) == Tail(queue)

QueueEntry(id, e, m, caller) == [id |-> id, ev |-> e, model |-> m, caller |-> caller]
EntryFrame(q) == NewFrame(q.id, q.ev, q.model, q.caller)

Returned(id, val) == [id |-> id, val |-> val]

\* trigger(e) on model m, called by `caller` (0 = the host, with no
\* pipeline in flight; otherwise the id of the pipeline whose callback is
\* running) when the call stack is stk.
Process(e, m, caller, stk) ==
    LET id == calls + 1
        mode == ProcessMode(machine.queued, transition_queue)
        queue2 == Append(transition_queue, QueueEntry(id, e, m, caller))
        top == stk[Len(stk)]
    IN  /\ calls' = id
        /\ CASE mode = "run" ->
                  /\ stack' = Append(stk, NewFrame(id, e, m, caller))
                  /\ UNCHANGED <<transition_queue, drainer, lastRet>>
             [] mode = "error" ->
                  /\ lastRet' = Returned(id, MachineError)
                  /\ stack' = IF stk = <<>> THEN stk
                              ELSE Front(stk) \o
                                   <<Raise(Logged(top, "raise", Head(top.cbs)), MachineError)>>
                  /\ UNCHANGED <<transition_queue, drainer>>
             [] mode = "queued" ->
                  /\ transition_queue' = queue2
                  /\ lastRet' = Returned(id, "true")
                  /\ stack' = stk
                  /\ UNCHANGED drainer
             [] mode = "drain" ->
                  /\ transition_queue' = queue2
                  /\ drainer' = id
                  /\ stack' = Append(stk, EntryFrame(DrainNext(queue2)))
                  /\ UNCHANGED lastRet

\* A registration call: op is the method, result what it came to.
Call(n, op, names, trigger, source, dest, result) ==
    [n |-> n, op |-> op, names |-> names, trigger |-> trigger, source |-> source,
     dest |-> dest, result |-> result]

NoCall == Call(0, "none", <<>>, "", <<>>, "", "ok")

----------------------------------------------------------------------------
(* Actions *)

Init ==
    /\ \E q \in BOOLEAN : machine = InitMachine(q)
    /\ states = InitStates
    /\ events = InitEvents
    /\ pred \in [PredNames -> BOOLEAN]
    /\ modelState = [m \in Models |-> "A"]
    /\ transition_queue = <<>>
    /\ stack = <<>>
    /\ calls = 0
    /\ order = <<>>
    /\ done = {}
    /\ lastRet = Returned(0, "none")
    /\ raises = 0
    /\ outcomes = <<>>
    /\ drainer = 0
    /\ stateOrder = <<"A", "B", "C">>
    /\ lastCall = NoCall
    /\ prevEvents = <<>>

Registry == <<machine, states, events, pred, stateOrder, lastCall, prevEvents>>

\* The host calls trigger(e) on model m while no pipeline is in flight.
HostTrigger(e, m) ==
    /\ stack = <<>>
    /\ calls < MaxCalls
    /\ Process(e, m, 0, stack)
    /\ UNCHANGED <<Registry, modelState, order, done, raises, outcomes>>

\* Machine::callbacks is about to invoke the next callback of the current list.
AtCallback ==
    /\ stack # <<>>
    /\ Top.pc \in CallbackPhases
    /\ ~Top.incb
    /\ Top.cbs # <<>>

\* The frame once Machine::callback has invoked the callback.
Invoked(f) == Logged([f EXCEPT !.incb = TRUE], f.pc, Head(f.cbs))

\* The next callback is invoked and returns without calling trigger().
Callback ==
    /\ AtCallback
    /\ stack' = SetTop([Invoked(Top) EXCEPT !.incb = FALSE, !.cbs = Tail(Top.cbs)])
    /\ UNCHANGED <<Registry, modelState, transition_queue, calls, order, done, lastRet, raises, drainer, outcomes>>

\* A callback calls trigger(e) on model m: the next callback is invoked
\* and makes the call, or the running callback makes one more call.
CallbackTrigger(e, m) ==
    /\ AtCallback \/ (stack # <<>> /\ Top.incb)
    /\ calls < MaxCalls
    /\ Len(stack) < MaxDepth
    /\ Process(e, m, Top.id, IF Top.incb THEN stack ELSE SetTop(Invoked(Top)))
    /\ UNCHANGED <<Registry, modelState, order, done, raises, outcomes>>

\* The running callback returns after it called trigger().
CallbackReturn ==
    /\ stack # <<>>
    /\ Top.incb
    /\ stack' = SetTop([Top EXCEPT !.incb = FALSE, !.cbs = Tail(Top.cbs)])
    /\ UNCHANGED <<Registry, modelState, transition_queue, calls, order, done, lastRet, raises, drainer, outcomes>>

\* A callback raises: the next callback is invoked and raises, or the
\* running callback raises after it called trigger().
CallbackRaise ==
    /\ AtCallback \/ (stack # <<>> /\ Top.incb)
    /\ raises < MaxRaises
    /\ raises' = raises + 1
    /\ LET f == IF Top.incb THEN Top ELSE Invoked(Top)
       IN  stack' = SetTop(Raise(Logged(f, "raise", Head(f.cbs)), CallbackError))
    /\ UNCHANGED <<Registry, modelState, transition_queue, calls, order, done, lastRet, drainer, outcomes>>

Ready(p) == stack # <<>> /\ Top.pc = p /\ ~Top.incb /\ Top.cbs = <<>>

\* Event::machine_trigger: get_model_state looks up the model's state
\* (get_state fails for a name that is not registered), then the
\* candidates for that state are looked up.
MachineTrigger ==
    /\ Ready("trigger")
    /\ LET st == modelState[Top.model]
           cands == IF st \in DOMAIN events[Top.ev] THEN events[Top.ev][st] ELSE <<>>
           f == Logged([Top EXCEPT !.state = st, !.state0 = st], "start", st)
       IN  stack' = SetTop(
                IF st \notin DOMAIN states
                THEN [f EXCEPT !.error = RegisteredStateError, !.pc = "ret"]
                ELSE IF cands = <<>>
                THEN IF EffectiveIgnore(st)
                     THEN [f EXCEPT !.pc = "ret"]
                     ELSE [f EXCEPT !.error = MachineError, !.pc = "ret"]
                ELSE [f EXCEPT !.cands = cands, !.cbs = machine.prepare_event,
                               !.pc = "prepare_event"])
    /\ order' = Append(order, Top.id)
    /\ UNCHANGED <<Registry, modelState, transition_queue, calls, done, lastRet, raises, drainer, outcomes>>

\* Event::_process: the prepare_event callbacks are done, the loop starts.
BeginLoop ==
    /\ Ready("prepare_event")
    /\ stack' = SetTop([Top EXCEPT !.idx = 1, !.pc = "loop"])
    /\ UNCHANGED <<Registry, modelState, transition_queue, calls, order, done, lastRet, raises, drainer, outcomes>>

\* Event::_process: the next candidate is executed, or the loop ends.
NextCandidate ==
    /\ Ready("loop")
    /\ LET f == Top
       IN  stack' = SetTop(
             IF f.idx > Len(f.cands)
             THEN [f EXCEPT !.cbs = machine.finalize_event, !.pc = "finalize"]
             ELSE [f EXCEPT !.cbs = PrepareCallbacks(Trans(f)), !.pc = "prepare"])
    /\ UNCHANGED <<Registry, modelState, transition_queue, calls, order, done, lastRet, raises, drainer, outcomes>>

\* Transition::execute: the prepare callbacks are done, eval_conditions starts.
EvalConditions ==
    /\ Ready("prepare")
    /\ stack' = SetTop([Top EXCEPT !.cds = EvalList(Trans(Top)), !.pc = "conditions"])
    /\ UNCHANGED <<Registry, modelState, transition_queue, calls, order, done, lastRet, raises, drainer, outcomes>>

\* Transition::eval_conditions: one condition is checked.
CheckCondition ==
    /\ Ready("conditions")
    /\ Top.cds # <<>>
    /\ LET c == Head(Top.cds)
           f == Logged(Top, "cond", c.func)
       IN  stack' = SetTop(
             IF ConditionCheck(c)
             THEN [f EXCEPT !.cds = Tail(f.cds)]
             ELSE AfterExecute(Logged([f EXCEPT !.cds = <<>>], "executed", "false"), FALSE))
    /\ UNCHANGED <<Registry, modelState, transition_queue, calls, order, done, lastRet, raises, drainer, outcomes>>

\* Transition::eval_conditions: the predicate of a condition raises.
ConditionRaise ==
    /\ Ready("conditions")
    /\ Top.cds # <<>>
    /\ raises < MaxRaises
    /\ raises' = raises + 1
    /\ LET c == Head(Top.cds)
           f == Logged(Top, "cond", c.func)
       IN  stack' = SetTop(Raise(Logged(f, "raise", c.func), CallbackError))
    /\ UNCHANGED <<Registry, modelState, transition_queue, calls, order, done, lastRet, outcomes, drainer>>

\* Transition::execute: eval_conditions returned true.
ConditionsPassed ==
    /\ Ready("conditions")
    /\ Top.cds = <<>>
    /\ stack' = SetTop([Top EXCEPT !.cbs = BeforeCallbacks(Trans(Top)), !.pc = "before"])
    /\ UNCHANGED <<Registry, modelState, transition_queue, calls, order, done, lastRet, raises, drainer, outcomes>>

\* Transition::execute: the before callbacks are done.
\* With a destination change_state starts by exiting the source state.
BeforeDone ==
    /\ Ready("before")
    /\ LET f == Top
           t == Trans(f)
       IN  stack' = SetTop(
             IF HasDest(t)
             THEN [f EXCEPT !.cbs = states[ExitState(t)].on_exit, !.pc = "exit"]
             ELSE [f EXCEPT !.cbs = AfterCallbacks(t), !.pc = "after"])
    /\ UNCHANGED <<Registry, modelState, transition_queue, calls, order, done, lastRet, raises, drainer, outcomes>>

\* Transition::change_state: the source state is exited; set_state, which
\* is handed a State made from the destination's name and so writes the
\* name without looking it up, and event_data.update; then get_state looks
\* up the destination (it fails for a name that is not registered) and the
\* destination state is entered.
SetState ==
    /\ Ready("exit")
    /\ LET dest == EnterState(Trans(Top))
           f == Logged(Top, "set", dest)
       IN  /\ modelState' = [modelState EXCEPT ![f.model] = dest]
           /\ stack' = [i \in 1..Len(stack) |->
                          IF i = Len(stack)
                          THEN IF dest \in DOMAIN states
                               THEN [f EXCEPT !.state = dest,
                                              !.cbs = states[dest].on_enter,
                                              !.pc = "enter"]
                               ELSE Raise(Logged(f, "raise", "get_state"),
                                          RegisteredStateError)
                          ELSE [stack[i] EXCEPT !.nested = TRUE]]
    /\ UNCHANGED <<Registry, transition_queue, calls, order, done, lastRet, raises, drainer, outcomes>>

\* Transition::change_state returned.
EnterDone ==
    /\ Ready("enter")
    /\ stack' = SetTop([Top EXCEPT !.cbs = AfterCallbacks(Trans(Top)), !.pc = "after"])
    /\ UNCHANGED <<Registry, modelState, transition_queue, calls, order, done, lastRet, raises, drainer, outcomes>>

\* Transition::execute returns true.
ExecuteDone ==
    /\ Ready("after")
    /\ stack' = SetTop(AfterExecute(Logged(Top, "executed", "true"), TRUE))
    /\ UNCHANGED <<Registry, modelState, transition_queue, calls, order, done, lastRet, raises, drainer, outcomes>>

\* Event::_process: the finalize_event callbacks are done.
FinalizeDone ==
    /\ Ready("finalize")
    /\ stack' = SetTop([Top EXCEPT !.pc = "ret"])
    /\ UNCHANGED <<Registry, modelState, transition_queue, calls, order, done, lastRet, raises, drainer, outcomes>>

Outcome(f) == IF f.error # NoError THEN f.error ELSE IF f.result THEN "true" ELSE "false"

\* A drain loop that returns what the last trigger it ran returned.
DrainReturnLast(f) == IF f.result THEN "true" ELSE "false"

\* Machine::_process, after the drain loop: `return True`.
DrainReturn(f) == "true"

\* An error handler that leaves the queue as it is.
AfterErrorKeep(queue) == queue

\* An error handler that drops only the entry that failed.
AfterErrorPopOne(queue) == Tail(queue)

\* Machine::_process, the except branch: self._transition_queue.clear().
AfterError(queue) == <<>>

\* Machine::_process, `return trigger()`: the pipeline returns to the
\* trigger() call that ran it synchronously; an error propagates into the
\* callback that made the call.
ReturnSync ==
    /\ Ready("ret")
    /\ drainer = 0
    /\ LET f == Top
           rest == Front(stack)
       IN  /\ lastRet' = Returned(f.id, Outcome(f))
           /\ done' = done \cup {f.id}
           /\ outcomes' = outcomes @@ (f.id :> Outcome(f))
           /\ stack' = IF rest # <<>> /\ f.error # NoError
                       THEN Front(rest) \o
                            <<Raise(Logged(rest[Len(rest)], "raise",
                                           Head(rest[Len(rest)].cbs)), f.error)>>
                       ELSE rest
    /\ UNCHANGED <<Registry, modelState, transition_queue, calls, order, raises, drainer>>

\* Machine::_process, the drain loop: the entry that ran is popped and the
\* next one is executed; an error clears the queue and propagates.
DrainStep ==
    /\ Ready("ret")
    /\ drainer # 0
    /\ LET f == Top
           queue2 == PopLeft(transition_queue)
       IN  /\ done' = done \cup {f.id}
           /\ outcomes' = outcomes @@ (f.id :> Outcome(f))
           /\ IF f.error # NoError
              THEN /\ transition_queue' = AfterError(transition_queue)
                   /\ stack' = Front(stack)
                   /\ lastRet' = Returned(drainer, f.error)
                   /\ drainer' = 0
              ELSE /\ transition_queue' = queue2
                   /\ IF queue2 = <<>>
                      THEN /\ stack' = Front(stack)
                           /\ lastRet' = Returned(drainer, DrainReturn(f))
                           /\ drainer' = 0
                      ELSE /\ stack' = SetTop(EntryFrame(DrainNext(queue2)))
                           /\ UNCHANGED <<lastRet, drainer>>
    /\ UNCHANGED <<Registry, modelState, calls, order, raises>>

Next ==
    \/ \E e \in EventNames, m \in Models : HostTrigger(e, m)
    \/ \E e \in EventNames, m \in Models : CallbackTrigger(e, m)
    \/ Callback
    \/ CallbackReturn
    \/ CallbackRaise
    \/ MachineTrigger
    \/ BeginLoop
    \/ NextCandidate
    \/ EvalConditions
    \/ CheckCondition
    \/ ConditionRaise
    \/ ConditionsPassed
    \/ BeforeDone
    \/ SetState
    \/ EnterDone
    \/ ExecuteDone
    \/ FinalizeDone
    \/ ReturnSync
    \/ DrainStep

Spec == Init /\ [][Next]_vars

----------------------------------------------------------------------------
(* The machine constructed with queued = true *)

QueuedInit == Init /\ machine.queued

\* The steps of the engine and the returns of callbacks.  The engine is
\* one thread of control that never blocks, and a callback that is
\* invoked returns or raises.  (`return trigger()` of the unqueued branch
\* of _process, ReturnSync, is never reached with queued = true.)
QueuedStep ==
    \/ Callback
    \/ CallbackReturn
    \/ MachineTrigger
    \/ BeginLoop
    \/ NextCandidate
    \/ EvalConditions
    \/ CheckCondition
    \/ ConditionsPassed
    \/ BeforeDone
    \/ SetState
    \/ EnterDone
    \/ ExecuteDone
    \/ FinalizeDone
    \/ DrainStep

QueuedNext ==
    \/ \E e \in EventNames, m \in Models : HostTrigger(e, m)
    \/ \E e \in EventNames, m \in Models : CallbackTrigger(e, m)
    \/ CallbackRaise
    \/ ConditionRaise
    \/ QueuedStep

QueuedSpec == QueuedInit /\ [][QueuedNext]_vars /\ WF_vars(QueuedStep)

----------------------------------------------------------------------------
(* Registration: Machine::add_states and Machine::add_transition           *)
(*                                                                         *)
(* Both are stubs in Rust; they are modelled from the reference body that  *)
(* machine.rs carries in their comments.  The comments have lost the       *)
(* indentation of the reference; the nesting taken here is the one in      *)
(* which the `else:` of the method_name choice holds the registration      *)
(* under the deprecated name 'to_<state>' (the call whose prepare is       *)
(* _warning_wrapper_to), and the registration under method_name follows    *)
(* the if/else.                                                            *)

\* Number of registration calls in one run.
MaxReg == 3

WILDCARD_ALL == "*"
WILDCARD_SAME == "="
TriggerNameError == "TriggerNameError"
Ok == "ok"

\* The values of model_attribute a machine is constructed with.
ModelAttributes == {"state", "status"}

\* The trigger names the host registers transitions under.
TriggerNames == {"go", "status"}

\* The source arguments of add_transition: the wildcard, a list of state
\* names, one state name.
SourceArgs == {<<WILDCARD_ALL>>, <<"A", "B">>, <<"C">>}

\* The dest arguments of add_transition.
DestArgs == {WILDCARD_SAME, "B", NoDest}

\* The states arguments of add_states.
StatesArgs == {<<"A">>, <<"B">>, <<"C">>, <<"A", "B">>}

\* Machine::new, with the fields registration reads.
NewMachine(auto, attr) ==
    InitMachine(FALSE) @@ [auto_transitions |-> auto, model_attribute |-> attr,
                           initial |-> "None"]

\* A transition put in front of the list of its source.
EventAddTransitionFront(transitions, t) ==
    IF t.source \in DOMAIN transitions
    THEN [transitions EXCEPT ![t.source] = <<t>> \o @]
    ELSE transitions @@ (t.source :> <<t>>)

\* Event::add_transition: self.transitions[transition.source].append(transition)
\* on a defaultdict(list).
EventAddTransition(transitions, t) ==
    IF t.source \in DOMAIN transitions
    THEN [transitions EXCEPT ![t.source] = Append(@, t)]
    ELSE transitions @@ (t.source :> <<t>>)

\* `if trigger == self.model_attribute: raise`, never taken.
RejectsTriggerNever(trigger, attr) == FALSE

\* `if trigger == self.model_attribute: raise`
RejectsTrigger(trigger, attr) == trigger = attr

\* `source = list(self.states.keys())` with every state name there is.
ExpandSourceAllNames(source, keys) ==
    IF source = <<WILDCARD_ALL>> THEN <<"A", "B", "C">> ELSE source

\* `if source == self.WILDCARD_ALL: source = list(self.states.keys())`,
\* else the listified source.
ExpandSource(source, keys) ==
    IF source = <<WILDCARD_ALL>> THEN keys ELSE source

\* The dest argument taken as it is for every source.
ExpandDestLiteral(dest, state) == dest

\* `_dest = state` for WILDCARD_SAME, else dest (None stays None).
ExpandDest(dest, state) == IF dest = WILDCARD_SAME THEN state ELSE dest

\* `for state in source: ... self.events[trigger].add_transition(_trans)`
\* The conditions, unless, before, after and prepare arguments of
\* add_transition, each a list of names.
CallbackArgs(conditions, unless, before, after, prepare) ==
    [conditions |-> conditions, unless |-> unless, before |-> before,
     after |-> after, prepare |-> prepare]

NoCallbacks == CallbackArgs(<<>>, <<>>, <<>>, <<>>, <<>>)

\* The guards of a transition: each name with the target it is compared to.
Guards(names, target) == [i \in 1..Len(names) |-> Condition(names[i], target)]

\* `_create_transition(state, _dest, conditions, unless, before, after, prepare)`
CreateTransition(state, dest, cb) ==
    Transition(state, dest, Guards(cb.conditions, TRUE), Guards(cb.unless, FALSE),
               cb.before, cb.after, cb.prepare)

RECURSIVE AddEach(_, _, _, _)
AddEach(transitions, source, dest, cb) ==
    IF source = <<>> THEN transitions
    ELSE AddEach(EventAddTransition(transitions,
                     CreateTransition(Head(source), ExpandDest(dest, Head(source)), cb)),
                 Tail(source), dest, cb)

\* Machine::add_transition past the trigger-name check: the event is created
\* if the trigger is new, then one transition is added per source.
AddTransitionWith(evs, keys, trigger, source, dest, cb) ==
    LET evs1 == IF trigger \in DOMAIN evs THEN evs ELSE evs @@ (trigger :> <<>>)
    IN  [evs1 EXCEPT ![trigger] = AddEach(@, ExpandSource(source, keys), dest, cb)]

\* add_transition given a prepare argument only.
AddTransitionTo(evs, keys, trigger, source, dest, prepare) ==
    AddTransitionWith(evs, keys, trigger, source, dest,
                      [NoCallbacks EXCEPT !.prepare = prepare])

\* 'to_%s' % a_state
ToName(a_state) == "to_" \o a_state

\* method_name of add_states.
MethodName(attr, a_state) ==
    IF attr = "state" THEN "to_" \o a_state
    ELSE "to_" \o attr \o "_" \o a_state

\* The source of an auto transition, always the new state alone.
AutoSourceSelf(name, a_state) == <<name>>

\* The source of an auto transition: the wildcard when a_state is the new
\* state, else the new state.
AutoSource(name, a_state) ==
    IF a_state = name THEN <<WILDCARD_ALL>> ELSE <<name>>

\* The body of `for a_state in self.states.keys()` for one a_state.
AutoTransitions(evs, keys, attr, name, a_state) ==
    LET src  == AutoSource(name, a_state)
        evs1 == IF attr = "state" THEN evs
                ELSE AddTransitionTo(evs, keys, ToName(a_state), src, a_state,
                                     <<"_warning_wrapper_to">>)
    IN  AddTransitionTo(evs1, keys, MethodName(attr, a_state), src, a_state, <<>>)

RECURSIVE AutoAll(_, _, _, _, _)
AutoAll(evs, keys, attr, name, rest) ==
    IF rest = <<>> THEN evs
    ELSE AutoAll(AutoTransitions(evs, keys, attr, name, Head(rest)),
                 keys, attr, name, Tail(rest))

\* The registry: Machine.states, its keys in insertion order, Machine.events.
Reg(sts, keys, evs) == [states |-> sts, keys |-> keys, events |-> evs]

\* The body of `for state in states` of add_states for one name: the state
\* is created with the machine's ignore_invalid_triggers, stored under its
\* name, and the auto transitions are added.
AddState(reg, m, name) ==
    LET state == State(name, <<>>, <<>>, <<m.ignore_invalid_triggers>>)
        sts   == (name :> state) @@ reg.states
        keys  == IF name \in DOMAIN reg.states THEN reg.keys
                 ELSE Append(reg.keys, name)
    IN  Reg(sts, keys,
            IF m.auto_transitions
            THEN AutoAll(reg.events, keys, m.model_attribute, name, keys)
            ELSE reg.events)

RECURSIVE AddStatesTo(_, _, _)
AddStatesTo(reg, m, names) ==
    IF names = <<>> THEN reg
    ELSE AddStatesTo(AddState(reg, m, Head(names)), m, Tail(names))

Engine == <<pred, modelState, transition_queue, stack, calls, order, done,
            lastRet, raises, outcomes, drainer>>

\* Machine::add_states(names)
AddStates(names) ==
    /\ lastCall.n < MaxReg
    /\ LET reg == AddStatesTo(Reg(states, stateOrder, events), machine, names)
       IN  /\ states' = reg.states
           /\ stateOrder' = reg.keys
           /\ events' = reg.events
    /\ prevEvents' = events
    /\ lastCall' = Call(lastCall.n + 1, "add_states", names, "", <<>>, "", Ok)
    /\ UNCHANGED <<machine, Engine>>

\* Machine::add_transition(trigger, source, dest)
AddTransition(trigger, source, dest) ==
    /\ lastCall.n < MaxReg
    /\ IF RejectsTrigger(trigger, machine.model_attribute)
       THEN /\ events' = events
            /\ lastCall' = Call(lastCall.n + 1, "add_transition", <<>>, trigger,
                                source, dest, TriggerNameError)
       ELSE /\ events' = AddTransitionTo(events, stateOrder, trigger, source,
                                         dest, <<>>)
            /\ lastCall' = Call(lastCall.n + 1, "add_transition", <<>>, trigger,
                                source, dest, Ok)
    /\ prevEvents' = events
    /\ UNCHANGED <<machine, states, stateOrder, Engine>>

----------------------------------------------------------------------------
(* Machine::add_ordered_transitions and support::_prep_ordered_arg         *)
(*                                                                         *)
(* Both are modelled from the reference bodies in the comments of          *)
(* machine.rs and support.rs.  The errors the reference raises as          *)
(* ValueError are named as the variants of Error that carry the same       *)
(* messages.                                                               *)

\* Number of add_ordered_transitions calls in one run.
MaxOrdered == 1

None == "None"
InsufficientStatesError == "InsufficientStatesError"
ArgumentsError == "ArgumentsError"

\* An optional argument: passed with a list, or left out.
Given(list) == [given |-> TRUE, list |-> list]
NotGiven == [given |-> FALSE, list |-> <<>>]

\* The optional callback arguments of add_ordered_transitions.
ArgNames == {"conditions", "unless", "before", "after", "prepare"}

\* None of them given.
NoOrderedArgs == [k \in ArgNames |-> NotGiven]

\* listify of one element of a prepared argument: None is no callback.
Listify(x) == IF x = None THEN <<>> ELSE <<x>>

\* `arguments = listify(arguments) if arguments is not None else [None]`
Arguments(arg) == IF arg.given THEN arg.list ELSE <<None>>

\* _prep_ordered_arg does not raise: the length is 1 or the desired one.
PrepAccepts(desired, arg) ==
    Len(Arguments(arg)) = desired \/ Len(Arguments(arg)) = 1

\* A prepared argument that repeats the first entry whatever the length.
PrepOrderedArgFirst(desired, arg) == [i \in 1..desired |-> Arguments(arg)[1]]

\* _prep_ordered_arg: one entry is repeated desired_length times, a list of
\* the desired length is returned as it is.
PrepOrderedArg(desired, arg) ==
    IF Len(Arguments(arg)) = 1
    THEN [i \in 1..desired |-> Arguments(arg)[1]]
    ELSE Arguments(arg)

\* states.index(x): the first position of x, 0 for ValueError.
Index(seq, x) ==
    IF \E i \in 1..Len(seq) : seq[i] = x
    THEN CHOOSE i \in 1..Len(seq) :
             seq[i] = x /\ \A j \in 1..(i - 1) : seq[j] # x
    ELSE 0

\* The state list left in the order given.
OrderedStatesAsGiven(sts, initial) == sts

\* `states = states[idx:] + states[:idx]` when the initial state is among
\* the states, else the list as given.
OrderedStates(sts, initial) ==
    LET idx == Index(sts, initial)
    IN  IF idx = 0 THEN sts
        ELSE SubSeq(sts, idx, Len(sts)) \o SubSeq(sts, 1, idx - 1)

\* A loop that is closed to the second state of the turned list.
FirstInLoopSecond(sts, initial, loop_includes_initial) ==
    OrderedStates(sts, initial)[2]

\* first_in_loop
FirstInLoop(sts, initial, loop_includes_initial) ==
    IF Index(sts, initial) = 0 THEN sts[1]
    ELSE IF loop_includes_initial THEN OrderedStates(sts, initial)[1]
         ELSE OrderedStates(sts, initial)[2]

\* A loop that is closed whatever the flag.
ClosesLoopAlways(loop) == TRUE

\* `if loop:`
ClosesLoop(loop) == loop

\* The arguments of one add_ordered_transitions call; cb holds the five
\* optional callback arguments.
OrderedArgs(sts, trigger, loop, loop_includes_initial, cb) ==
    [states |-> sts, trigger |-> trigger, loop |-> loop,
     loop_includes_initial |-> loop_includes_initial, cb |-> cb]

\* A call that works on every state name there is when no list is given.
StatesOfAllNames(a, keys) ==
    IF a.states.given THEN a.states.list ELSE <<"A", "B", "C">>

\* The state list the call works on: `states = list(self.states.keys())`
\* when none is given.
StatesOf(a, keys) == IF a.states.given THEN a.states.list ELSE keys

\* len_transitions
LenTransitions(a, keys) ==
    IF a.loop THEN Len(StatesOf(a, keys)) ELSE Len(StatesOf(a, keys)) - 1

\* The callback arguments of the i-th generated transition.
CallbacksAt(a, keys, i) ==
    LET at(arg) == Listify(PrepOrderedArg(LenTransitions(a, keys), arg)[i])
    IN  CallbackArgs(at(a.cb.conditions), at(a.cb.unless), at(a.cb.before),
                     at(a.cb.after), at(a.cb.prepare))

\* A call that looks at the callback arguments before the state list.
OrderedFailureArgumentsFirst(a, keys, attr) ==
    IF \E k \in DOMAIN a.cb : ~PrepAccepts(LenTransitions(a, keys), a.cb[k])
    THEN ArgumentsError
    ELSE IF Len(StatesOf(a, keys)) < 2 THEN InsufficientStatesError
    ELSE IF RejectsTrigger(a.trigger, attr) THEN TriggerNameError
    ELSE Ok

\* What the call raises before it adds a transition, Ok when nothing.
OrderedFailure(a, keys, attr) ==
    IF Len(StatesOf(a, keys)) < 2 THEN InsufficientStatesError
    ELSE IF \E k \in DOMAIN a.cb : ~PrepAccepts(LenTransitions(a, keys), a.cb[k])
         THEN ArgumentsError
    ELSE IF RejectsTrigger(a.trigger, attr) THEN TriggerNameError
    ELSE Ok

\* `for i in range(0, len(states) - 1): self.add_transition(...)` from i on.
RECURSIVE AddPairs(_, _, _, _, _)
AddPairs(evs, keys, a, sts, i) ==
    IF i > Len(sts) - 1 THEN evs
    ELSE AddPairs(AddTransitionWith(evs, keys, a.trigger, <<sts[i]>>, sts[i + 1],
                                    CallbacksAt(a, keys, i)),
                  keys, a, sts, i + 1)

\* Machine::add_ordered_transitions past its checks.
AddOrderedTo(evs, keys, initial, a) ==
    LET sts0  == StatesOf(a, keys)
        sts   == OrderedStates(sts0, initial)
        pairs == AddPairs(evs, keys, a, sts, 1)
    IN  IF ClosesLoop(a.loop)
        THEN AddTransitionWith(pairs, keys, a.trigger, <<sts[Len(sts)]>>,
                               FirstInLoop(sts0, initial, a.loop_includes_initial),
                               CallbacksAt(a, keys, LenTransitions(a, keys)))
        ELSE pairs

OrderedCall(n, a, result) ==
    Call(n, "add_ordered_transitions", <<>>, a.trigger, <<>>, "", result)
        @@ [args |-> a]

\* Machine::add_ordered_transitions(states, trigger, loop,
\* loop_includes_initial, conditions, unless, before, after, prepare)
AddOrderedTransitions(a) ==
    /\ LET failure == OrderedFailure(a, stateOrder, machine.model_attribute)
       IN  /\ events' = IF failure = Ok
                        THEN AddOrderedTo(events, stateOrder, machine.initial, a)
                        ELSE events
           /\ lastCall' = OrderedCall(lastCall.n + 1, a, failure)
    /\ prevEvents' = events
    /\ UNCHANGED <<machine, states, stateOrder, Engine>>

\* The machine as Machine::new leaves it when it is given no states and no
\* transitions.
BuildInit ==
    /\ \E auto \in BOOLEAN, attr \in ModelAttributes :
           machine = NewMachine(auto, attr)
    /\ states = <<>>
    /\ stateOrder = <<>>
    /\ events = <<>>
    /\ lastCall = NoCall
    /\ prevEvents = <<>>
    /\ pred = [p \in PredNames |-> TRUE]
    /\ modelState = [m \in Models |-> "A"]
    /\ transition_queue = <<>>
    /\ stack = <<>>
    /\ calls = 0
    /\ order = <<>>
    /\ done = {}
    /\ lastRet = Returned(0, "none")
    /\ raises = 0
    /\ outcomes = <<>>
    /\ drainer = 0

BuildNext ==
    \/ \E names \in StatesArgs : AddStates(names)
    \/ \E trigger \in TriggerNames, source \in SourceArgs, dest \in DestArgs :
           AddTransition(trigger, source, dest)
    \/ \E sts \in {NotGiven, Given(<<"A", "B", "A">>)}, loop \in BOOLEAN :
           /\ lastCall.n < MaxReg
           /\ AddOrderedTransitions(
                  OrderedArgs(sts, "next_state", loop, TRUE, NoOrderedArgs))

BuildSpec == BuildInit /\ [][BuildNext]_vars

----------------------------------------------------------------------------
(* Ordered transitions on a machine constructed with states and an initial *)
(* state, auto_transitions and model_attribute left at their defaults      *)

\* The states and initial arguments of Machine::new.
InitialStatesArgs == {<<>>, <<"A">>, <<"A", "B", "C">>}
InitialArgs == {None, "A", "B", "C"}

\* The states arguments of add_ordered_transitions.
OrderedStatesArgs ==
    {NotGiven, Given(<<"A">>), Given(<<"C", "A">>), Given(<<"A", "B", "C">>)}

\* The lists passed as one of the callback arguments.
ArgLists == {<<>>, <<"x">>, <<"x", "y">>, <<"x", "y", "z">>}

\* The callback arguments of add_ordered_transitions: none, or one of them
\* given.
OrderedCallbackArgs ==
    {NoOrderedArgs} \cup
    {[NoOrderedArgs EXCEPT ![k] = Given(l)] : k \in ArgNames, l \in ArgLists}

\* Machine::new(states, initial): add_states(states), then the setter of
\* `initial`, which adds the state when it is not registered.
Constructed(m, names, initial) ==
    LET reg == AddStatesTo(Reg(<<>>, <<>>, <<>>), m, names)
    IN  IF initial = None \/ initial \in DOMAIN reg.states THEN reg
        ELSE AddState(reg, m, initial)

OrderedInit ==
    /\ \E names \in InitialStatesArgs, initial \in InitialArgs :
           LET m == [NewMachine(TRUE, "state") EXCEPT !.initial = initial]
               reg == Constructed(m, names, initial)
           IN  /\ machine = m
               /\ states = reg.states
               /\ stateOrder = reg.keys
               /\ events = reg.events
               /\ prevEvents = reg.events
    /\ lastCall = NoCall
    /\ pred = [p \in PredNames |-> TRUE]
    /\ modelState = [m \in Models |-> "A"]
    /\ transition_queue = <<>>
    /\ stack = <<>>
    /\ calls = 0
    /\ order = <<>>
    /\ done = {}
    /\ lastRet = Returned(0, "none")
    /\ raises = 0
    /\ outcomes = <<>>
    /\ drainer = 0

OrderedNext ==
    \E sts \in OrderedStatesArgs, loop \in BOOLEAN, lii \in BOOLEAN,
       cb \in OrderedCallbackArgs :
        /\ lastCall.n < MaxOrdered
        /\ AddOrderedTransitions(OrderedArgs(sts, "next_state", loop, lii, cb))

OrderedSpec == OrderedInit /\ [][OrderedNext]_vars

----------------------------------------------------------------------------
(* Dispatch and registration                                               *)
(*                                                                         *)
(* A run either dispatches triggers on the machine of Init or makes        *)
(* registration calls on the machine of BuildInit: registration does not   *)
(* run concurrently with dispatch.                                         *)

\* The run is one of dispatch: the machine came with its states and no
\* registration call was made.
Dispatching == lastCall.n = 0 /\ stateOrder # <<>>

ProgramInit == Init \/ BuildInit

ProgramNext ==
    \/ Dispatching /\ Next
    \/ ~Dispatching /\ BuildNext

ProgramSpec == ProgramInit /\ [][ProgramNext]_vars

----------------------------------------------------------------------------
(* Vocabulary of the properties *)

Frames == {stack[i] : i \in DOMAIN stack}
Range(q) == {q[i] : i \in DOMAIN q}

\* The frame that is running.  Only the top frame takes steps: the log of
\* a frame below it is the log it had when it was last on top, so what
\* holds of the running frame's log in every reachable state holds of
\* every frame's log.
Running == IF stack = <<>> THEN {} ELSE {Top}

\* Log kinds that belong to one candidate's Transition::execute.
CandKinds == {"prepare", "cond", "before", "exit", "set", "enter", "after", "executed"}
\* Log kinds that only a candidate that passed its guards produces.
FireKinds == {"before", "exit", "set", "enter", "after"}

\* The entries of frame f's log for candidate k with a kind in K, as <<kind, name>>.
Steps(f, k, K) ==
    LET sel == SelectSeq(f.log, LAMBDA e : e.idx = k /\ e.kind \in K)
    IN  [i \in DOMAIN sel |-> <<sel[i].kind, sel[i].name>>]

Tagged(kind, names) == [i \in DOMAIN names |-> <<kind, names[i]>>]

\* Candidate k of frame f returned true / false from execute.
Fired(f, k) == \E i \in DOMAIN f.log :
                  f.log[i] = [idx |-> k, kind |-> "executed", name |-> "true"]
Declined(f, k) == \E i \in DOMAIN f.log :
                  f.log[i] = [idx |-> k, kind |-> "executed", name |-> "false"]
FiredSet(f) == {k \in DOMAIN f.cands : Fired(f, k)}

\* Some guard of transition t fails: a `conditions` predicate is false or
\* an `unless` predicate is true.
GuardFails(t) ==
    \/ \E i \in DOMAIN t.conditions : pred[t.conditions[i].func] # TRUE
    \/ \E i \in DOMAIN t.unless : pred[t.unless[i].func] # FALSE

\* The pipeline of frame f returned normally.
ReturnedNormally(f) == f.pc = "ret" /\ f.error = NoError /\ f.cands # <<>>

----------------------------------------------------------------------------
(* C1 *)

\* C1: at-most-one-fire.  In every pipeline the candidates are tried in
\* registration order (the candidate index in the log starts at 1 and
\* only grows, by one at a time), nothing of any candidate happens after a
\* candidate returned true from execute, and at most one candidate runs
\* before/after callbacks or changes state; so a candidate registered
\* after the firing one runs no prepare callback, guard or before/after
\* callback.
C1_AtMostOneFire ==
    \A f \in Running :
        LET c == SelectSeq(f.log, LAMBDA e : e.kind \in CandKinds)
            fire == SelectSeq(f.log, LAMBDA e : e.kind \in FireKinds)
        IN  /\ c # <<>> => c[1].idx = 1
            /\ \A i \in DOMAIN c : c[i].idx \in DOMAIN f.cands
            /\ \A i \in DOMAIN c : i > 1 =>
                   /\ c[i].idx \in {c[i-1].idx, c[i-1].idx + 1}
                   /\ c[i].idx = c[i-1].idx + 1 <=>
                          (c[i-1].kind = "executed" /\ c[i-1].name = "false")
                   /\ ~(c[i-1].kind = "executed" /\ c[i-1].name = "true")
            /\ \A i \in DOMAIN fire : fire[i].idx = fire[1].idx
            /\ Cardinality(FiredSet(f)) <= 1
            /\ \A k \in FiredSet(f) : c[Len(c)].idx = k

\* The first candidate declined, the second fired and changed the state,
\* a third one is registered, and the pipeline has returned.
C1_Witness ==
    \E f \in Frames :
        /\ f.pc = "ret" /\ Len(f.cands) = 3
        /\ Declined(f, 1) /\ Fired(f, 2)
        /\ Steps(f, 2, {"set"}) # <<>>

----------------------------------------------------------------------------
(* C2 *)

\* Every candidate of frame f was tried and declined.
AllDeclined(f) == \A k \in DOMAIN f.cands : Declined(f, k)

\* C2 as stated: in unqueued mode a pipeline that returns reports true
\* exactly when one candidate's execute returned true, and when every
\* candidate declined it reports false and the model's state is the same
\* as before the trigger.
C2_Original ==
    ~machine.queued =>
        \A f \in Frames : ReturnedNormally(f) =>
            /\ f.result <=> Cardinality(FiredSet(f)) = 1
            /\ AllDeclined(f) => (~f.result /\ modelState[f.model] = f.state0)

\* C2 as amended: in unqueued mode a pipeline that returns reports true
\* exactly when one candidate's execute returned true; when every
\* candidate declined it reports false and has not written the model's
\* state itself, and the model's state is the same as before the trigger
\* unless a callback re-entered trigger() and the nested pipeline wrote it.
C2_ResultIffOneFired ==
    ~machine.queued =>
        \A f \in Frames : ReturnedNormally(f) =>
            /\ f.result <=> Cardinality(FiredSet(f)) = 1
            /\ AllDeclined(f) =>
                  /\ ~f.result
                  /\ \A k \in DOMAIN f.cands : Steps(f, k, {"set"}) = <<>>
                  /\ ~f.nested => modelState[f.model] = f.state0

\* An unqueued pipeline whose only candidate declined has returned false.
C2_Witness ==
    /\ ~machine.queued
    /\ \E f \in Frames : ReturnedNormally(f) /\ AllDeclined(f) /\ ~f.nested /\ ~f.result

----------------------------------------------------------------------------
(* C3 *)

\* C3: bracketing.  For every candidate whose execute returned true, the
\* before callbacks, the state change and the after callbacks happened in
\* exactly this order: machine-level before_state_change, the
\* transition's before, the state change (when there is a destination),
\* the transition's after, machine-level after_state_change.
C3_Bracketing ==
    \A f \in Running : \A k \in FiredSet(f) :
        LET t == f.cands[k]
        IN  Steps(f, k, {"before", "set", "after"}) =
                Tagged("before", machine.before_state_change) \o Tagged("before", t.before)
                \o (IF t.dest # NoDest THEN <<<<"set", t.dest>>>> ELSE <<>>)
                \o Tagged("after", t.after) \o Tagged("after", machine.after_state_change)

\* A transition with a destination and with before = [tb], after = [ta]
\* fired under machine-level before_state_change = [gb] and
\* after_state_change = [ga].
C3_Witness ==
    \E f \in Frames : \E k \in FiredSet(f) :
        /\ f.cands[k].dest # NoDest
        /\ f.cands[k].before = <<"tb">> /\ f.cands[k].after = <<"ta">>
        /\ machine.before_state_change = <<"gb">> /\ machine.after_state_change = <<"ga">>

----------------------------------------------------------------------------
(* C4 *)

\* C4: when a guard of a candidate fails (a `conditions` predicate is
\* false or an `unless` predicate is true), that candidate runs no before
\* callback, exits and enters no state, does not write the model's state,
\* runs no after callback, and its execute does not return true.
C4_GuardFailureAborts ==
    \A f \in Frames : \A k \in DOMAIN f.cands :
        GuardFails(f.cands[k]) =>
            /\ Steps(f, k, FireKinds) = <<>>
            /\ ~Fired(f, k)

----------------------------------------------------------------------------
(* C5 *)

\* C5: a transition fires only if every `conditions` predicate returns
\* true and every `unless` predicate returns false.
C5_FiresOnlyIfGuardsPass ==
    \A f \in Frames : \A k \in FiredSet(f) :
        /\ \A i \in DOMAIN f.cands[k].conditions : pred[f.cands[k].conditions[i].func]
        /\ \A i \in DOMAIN f.cands[k].unless : ~pred[f.cands[k].unless[i].func]

----------------------------------------------------------------------------
(* C6 *)

\* What an internal transition t that fired as candidate k of frame f did
\* by itself: prepare, its guards, before (global then local) and after
\* (local then global), no exit, no enter, no write of the model's
\* state, and the pipeline reports true.
InternalPipeline(f, k) ==
    LET t == f.cands[k]
    IN  /\ Steps(f, k, CandKinds) =
               Tagged("prepare", t.prepare)
               \o [i \in DOMAIN t.conditions |-> <<"cond", t.conditions[i].func>>]
               \o Tagged("before", machine.before_state_change) \o Tagged("before", t.before)
               \o Tagged("after", t.after) \o Tagged("after", machine.after_state_change)
               \o <<<<"executed", "true">>>>
        /\ f.result

\* An internal transition is being executed by the top frame.
InInternal(f) ==
    /\ f.pc \in TryPhases
    /\ f.idx \in DOMAIN f.cands
    /\ f.cands[f.idx].dest = NoDest

\* C6 as stated: an internal transition that fires runs prepare, guards,
\* before and after, never an exit or enter callback, and leaves the
\* model's state equal to its value before the trigger.
C6_Original ==
    /\ \A f \in Running : \A k \in DOMAIN f.cands :
          (f.cands[k].dest = NoDest /\ Fired(f, k)) => InternalPipeline(f, k)
    /\ \A f \in Frames :
          /\ InInternal(f) => f.pc \notin {"exit", "enter"}
          /\ \A k \in DOMAIN f.cands :
                (f.cands[k].dest = NoDest /\ Fired(f, k)) =>
                    modelState[f.model] = f.state0

\* C6 as amended: an internal transition that fires runs prepare, guards,
\* before and after, never an exit or enter callback, and does not write
\* the model's state; the state equals its value before the trigger
\* unless a callback re-entered trigger() and the nested pipeline wrote it.
C6_InternalTransition ==
    /\ \A f \in Running : \A k \in DOMAIN f.cands :
          (f.cands[k].dest = NoDest /\ Fired(f, k)) => InternalPipeline(f, k)
    /\ \A f \in Frames :
          /\ InInternal(f) => f.pc \notin {"exit", "enter"}
          /\ \A k \in DOMAIN f.cands :
                (f.cands[k].dest = NoDest /\ ~f.nested /\ Fired(f, k)) =>
                    modelState[f.model] = f.state0

\* An internal transition fired and its pipeline returned, with no nested
\* pipeline having written the state.
C6_Witness ==
    \E f \in Frames : \E k \in FiredSet(f) :
        f.cands[k].dest = NoDest /\ f.pc = "ret" /\ ~f.nested

----------------------------------------------------------------------------
(* C7 *)

\* The state change of candidate k of frame f is complete.
Changed(f, k) ==
    /\ f.cands[k].dest # NoDest
    /\ \/ Steps(f, k, {"after"}) # <<>>
       \/ Fired(f, k)
       \/ f.idx = k /\ f.pc = "after"

\* The order of the state change: the exit callbacks of the source state,
\* the write of the destination, the enter callbacks of the destination.
ChangeOrder ==
    \A f \in Running : \A k \in DOMAIN f.cands : Changed(f, k) =>
        LET t == f.cands[k]
        IN  Steps(f, k, {"exit", "set", "enter"}) =
                Tagged("exit", states[t.source].on_exit)
                \o <<<<"set", t.dest>>>>
                \o Tagged("enter", states[t.dest].on_enter)

\* C7 as stated: exit callbacks of the source, then the write, then enter
\* callbacks of the destination; the model's state equals the source
\* while the exit callbacks run and the destination while the enter
\* callbacks run.
C7_Original ==
    /\ ChangeOrder
    /\ \A f \in Frames :
          /\ f.pc = "exit" => modelState[f.model] = Trans(f).source
          /\ f.pc = "enter" => modelState[f.model] = Trans(f).dest

\* C7 as amended: the same order; the model's state equals the source
\* while the exit callbacks run and the destination while the enter
\* callbacks run, unless a callback re-entered trigger() and the nested
\* pipeline wrote the state.
C7_ChangeState ==
    /\ ChangeOrder
    /\ \A f \in Frames :
          /\ (f.pc = "exit" /\ ~f.nested) => modelState[f.model] = Trans(f).source
          /\ (f.pc = "enter" /\ ~f.nested) => modelState[f.model] = Trans(f).dest

\* A transition from a state with an exit callback to a state with an
\* enter callback has completed its state change.
C7_Witness ==
    \E f \in Frames : \E k \in DOMAIN f.cands :
        /\ Changed(f, k) /\ ~f.nested
        /\ states[f.cands[k].source].on_exit # <<>>
        /\ states[f.cands[k].dest].on_enter # <<>>

----------------------------------------------------------------------------
(* C8 *)

\* C8 as stated: with queued = false a trigger() call made by a callback
\* while a pipeline is in flight is refused with MachineError: no pipeline
\* ever runs nested in another one, and the model's state is not changed
\* under the outer transition.
C8_Original ==
    ~machine.queued =>
        /\ Len(stack) <= 1
        /\ \A f \in Frames : f.caller = 0 /\ ~f.nested

\* C8 as amended: with queued = false the transition queue is always
\* empty, so _process never refuses a trigger: a trigger() call made by a
\* callback while a pipeline is in flight is executed at once, nested in
\* the callback that made it (every call has started its pipeline or is
\* about to, on top of its caller's frame), and the nested transition may
\* change the model's state.
C8_NestedRunsAtOnce ==
    ~machine.queued =>
        /\ transition_queue = <<>>
        /\ drainer = 0
        /\ \A id \in 1..calls :
              \/ id \in Range(order)
              \/ stack # <<>> /\ Top.id = id /\ Top.pc = "trigger"
        /\ \A i \in DOMAIN stack : i > 1 =>
              /\ stack[i].caller = stack[i-1].id
              /\ stack[i-1].incb

\* Unqueued: a pipeline started by a callback of another pipeline has
\* written the model's state while the outer pipeline is still in flight.
C8_Witness ==
    /\ ~machine.queued
    /\ Len(stack) = 2
    /\ stack[2].caller = stack[1].id
    /\ stack[1].incb /\ stack[1].nested
    /\ Steps(stack[2], stack[2].idx, {"set"}) # <<>>

----------------------------------------------------------------------------
(* C9 *)

\* C9: queued non-nesting.  With queued = true at most one pipeline is in
\* flight: the stack never holds two frames, every pipeline that started
\* before the running one has returned (its after and finalize_event
\* callbacks are done), and no pending queue entry has started.
C9_QueuedNonNesting ==
    machine.queued =>
        /\ Len(stack) <= 1
        /\ \A id \in Range(order) : id \in done \/ (stack # <<>> /\ Top.id = id)
        /\ \A i \in DOMAIN transition_queue : i > 1 =>
              transition_queue[i].id \notin Range(order)
        /\ \A f \in Frames : transition_queue # <<>> /\ transition_queue[1].id = f.id

\* Queued: the pipeline of a trigger made by a callback of pipeline 1 is
\* running, after pipeline 1 fired and returned.
C9_Witness ==
    /\ machine.queued
    /\ \E f \in Frames : /\ f.caller # 0
                         /\ f.caller \in done
                         /\ f.pc \in TryPhases

----------------------------------------------------------------------------
(* C10 *)

\* C10: queue FIFO.  With queued = true pipelines start in the order of
\* their trigger() calls (ids are call ranks): the started ids increase,
\* the pending entries are in call order, and every pending entry was
\* called after every pipeline that has started.
C10_QueueFifo ==
    machine.queued =>
        /\ \A i, j \in DOMAIN order : i < j => order[i] < order[j]
        /\ \A i, j \in DOMAIN transition_queue :
              i < j => transition_queue[i].id < transition_queue[j].id
        /\ \A i \in DOMAIN transition_queue : \A id \in Range(order) :
              i > 1 => id < transition_queue[i].id

\* Queued: two triggers were enqueued by callbacks during one drain; the
\* first of them is running and the second is still pending.
C10_Witness ==
    /\ machine.queued
    /\ Len(transition_queue) = 2
    /\ transition_queue[1].caller # 0 /\ transition_queue[2].caller # 0
    /\ stack # <<>> /\ Top.id = transition_queue[1].id /\ Top.pc \in TryPhases
    /\ Top.id < transition_queue[2].id

----------------------------------------------------------------------------
(* C11 *)

Errors == {MachineError, CallbackError}

\* C11: with queued = true every trigger() call that does not raise
\* reports true to its caller: no return of a trigger() call is false,
\* whether the call was only enqueued or ran the drain loop, and whatever
\* the pipelines it ran came to.
C11_QueuedReportsSuccess ==
    machine.queued => lastRet.val \in {"none", "true"} \cup Errors

\* Queued: a host trigger() call whose own pipeline declined (`go` from B,
\* whose only candidate is guarded by c2, with c2 false; the state is as it
\* was) has returned true.
C11_Witness ==
    /\ machine.queued
    /\ stack = <<>>
    /\ lastRet.val = "true"
    /\ lastRet.id \in DOMAIN outcomes
    /\ outcomes[lastRet.id] = "false"
    /\ lastRet.id = calls
    /\ modelState["m"] = "B" /\ ~pred["c2"]

----------------------------------------------------------------------------
(* C12 *)

\* The drain loop has returned normally with everything executed.
Drained ==
    (machine.queued /\ stack = <<>> /\ lastRet.val = "true") =>
        /\ transition_queue = <<>>
        /\ drainer = 0
        /\ \A id \in lastRet.id..calls :
              /\ Cardinality({i \in DOMAIN order : order[i] = id}) = 1
              /\ id \in done

\* C12: drain to completion.  With queued = true, when the trigger() call
\* that ran the drain loop has returned normally the queue is empty, and
\* every trigger() call made since that call (itself and the ones made by
\* callbacks during the drain) has been executed exactly once and has
\* returned; and a drain loop that has started does end (callbacks make
\* at most MaxCalls trigger() calls).
C12_DrainToCompletion ==
    /\ []Drained
    /\ (drainer # 0) ~> (drainer = 0)

\* Queued: a drain that ran the host's trigger and two triggers enqueued
\* by callbacks has returned.
C12_Witness ==
    /\ machine.queued
    /\ stack = <<>>
    /\ lastRet.val = "true"
    /\ calls = lastRet.id + 2

----------------------------------------------------------------------------
(* C13 *)

\* The entry of trigger() call id was dropped from the queue without
\* having been executed.
Discarded(id) ==
    /\ id \in 1..calls
    /\ id \notin Range(order)
    /\ \A i \in DOMAIN transition_queue : transition_queue[i].id # id

\* C13: queue discard on error.  With queued = true, when a queued
\* invocation raised, the drain loop has ended with an empty queue and the
\* error of the failing pipeline (the last one started) is what the
\* trigger() call that ran the drain loop raises; no entry is left over
\* while no pipeline is in flight, and an entry that was dropped is never
\* executed afterwards.
C13_QueueDiscardOnError ==
    /\ [](machine.queued =>
            /\ stack = <<>> => (transition_queue = <<>> /\ drainer = 0)
            /\ (stack = <<>> /\ lastRet.val \in Errors) =>
                  /\ order # <<>>
                  /\ lastRet.id <= order[Len(order)]
                  /\ order[Len(order)] \in DOMAIN outcomes
                  /\ outcomes[order[Len(order)]] = lastRet.val)
    /\ [][machine.queued =>
            \A id \in 1..calls : Discarded(id) => Discarded(id)']_vars

\* Queued: a callback raised while an entry enqueued by a callback was
\* pending; the drain has ended with the error and the pending entry was
\* dropped.
C13_Witness ==
    /\ machine.queued
    /\ stack = <<>>
    /\ lastRet.val = CallbackError
    /\ \E id \in 1..calls : id > lastRet.id /\ Discarded(id)

----------------------------------------------------------------------------
(* C14 *)

\* Frame f is a trigger of an event that has no transition list for the
\* state the model was in, and machine_trigger is over.
InvalidTrigger(f) == f.pc = "ret" /\ f.state0 # "" /\ events[f.ev][f.state0] = <<>>

\* The state-level flag if it is set, else the machine's default.
IgnoreFlag(st) ==
    \/ states[st].ignore_invalid_triggers = <<TRUE>>
    \/ states[st].ignore_invalid_triggers = <<>> /\ machine.ignore_invalid_triggers

\* What an invalid trigger comes to when the error it fails with is err:
\* no callback runs and the model's state is unchanged; with the ignore
\* flag it returns false, else it fails with err.
InvalidTriggerOutcome(err) ==
    \A f \in Frames : InvalidTrigger(f) =>
        /\ f.log = <<[idx |-> 0, kind |-> "start", name |-> f.state0]>>
        /\ modelState[f.model] = f.state0
        /\ IF IgnoreFlag(f.state0)
           THEN f.error = NoError /\ ~f.result
           ELSE f.error = err

\* C14 as stated: an invalid trigger returns false without running a
\* callback or changing the state when the effective ignore flag is true,
\* and otherwise fails with UnknownTriggerError.
C14_Original == InvalidTriggerOutcome("UnknownTriggerError")

\* C14 as amended: an invalid trigger returns false without running a
\* callback or changing the state when the effective ignore flag is true,
\* and otherwise fails with MachineError; the state is unchanged.
C14_InvalidTrigger == InvalidTriggerOutcome(MachineError)

\* A trigger failed with MachineError (only an invalid trigger does, and no
\* callback of the machine raises it), and now `go` or `back` is ignored
\* in a state whose ignore flag is set.
C14_Witness ==
    /\ \E id \in DOMAIN outcomes : outcomes[id] = MachineError
    /\ \E f \in Frames : InvalidTrigger(f) /\ IgnoreFlag(f.state0) /\ ~f.result

----------------------------------------------------------------------------
(* C15 *)

\* Event::_process was called for frame f and is over.
Processed(f) == f.pc = "ret" /\ f.cands # <<>>

\* The finalize_event callbacks frame f has invoked, in order.
Finalizers(f) ==
    LET sel == SelectSeq(f.log, LAMBDA e : e.kind = "finalize")
    IN  [i \in DOMAIN sel |-> sel[i].name]

\* A prepare_event callback of frame f raised (the candidate index is
\* still 0 then), or a trigger() call it made did.
PrepareEventRaised(f) ==
    \E i \in DOMAIN f.log : f.log[i].kind = "raise" /\ f.log[i].idx = 0

\* Callback i of frame f's log raised, and it was a callback of phase kind.
RaisedIn(f, kinds) ==
    \E i \in DOMAIN f.log :
        /\ i > 1
        /\ f.log[i].kind = "raise"
        /\ f.log[i-1].kind \in kinds

\* C15 as stated: the finalize_event callbacks run exactly once per
\* processing of an event, whatever the outcome, also when a
\* prepare_event callback raised.
C15_Original ==
    \A f \in Running : Processed(f) => Finalizers(f) = machine.finalize_event

\* C15 as amended: the finalize_event callbacks run exactly once per
\* processing of an event when a transition fired, when all candidates
\* declined and when a prepare, guard, before, exit, enter or after
\* callback raised; when a prepare_event callback raised they do not run.
C15_FinalizeOnce ==
    \A f \in Running : Processed(f) =>
        Finalizers(f) = IF PrepareEventRaised(f) THEN <<>> ELSE machine.finalize_event

\* An enter callback raised and the finalize_event callback has run.
C15_Witness ==
    \E f \in Running :
        /\ Processed(f)
        /\ f.error = CallbackError
        /\ RaisedIn(f, {"enter"})
        /\ Finalizers(f) = <<"gf">>

----------------------------------------------------------------------------
(* C16 *)

\* Where the log of frame f starts to be about candidate k.
PrevEnd(f, k) ==
    IF k = 1 THEN 0
    ELSE CHOOSE i \in DOMAIN f.log :
             f.log[i] = [idx |-> k - 1, kind |-> "executed", name |-> "false"]

\* The prepare_event and prepare callbacks run for candidate k of frame f.
Preparation(f, k) ==
    LET seg == SubSeq(f.log, PrevEnd(f, k) + 1, Len(f.log))
        sel == SelectSeq(seg, LAMBDA e : /\ e.kind \in {"prepare_event", "prepare"}
                                         /\ e.idx \in {0, k})
    IN  [i \in DOMAIN sel |-> <<sel[i].kind, sel[i].name>>]

\* The guards of candidate k of frame f have been reached.
GuardsReached(f, k) == Steps(f, k, {"cond", "before", "executed"}) # <<>>

\* The prepare callbacks of candidate k ran before its guards.
PrepareFirst(f, k) ==
    LET pc == Steps(f, k, {"prepare", "cond"})
        n == Len(f.cands[k].prepare)
    IN  /\ Len(pc) >= n
        /\ SubSeq(pc, 1, n) = Tagged("prepare", f.cands[k].prepare)
        /\ \A i \in DOMAIN pc : i > n => pc[i][1] = "cond"

\* C16 as stated: for each candidate that is tried the machine-level
\* prepare_event callbacks and then the candidate's prepare callbacks run
\* before its guards, whether or not the guards pass.
C16_Original ==
    \A f \in Running : \A k \in DOMAIN f.cands : GuardsReached(f, k) =>
        /\ Preparation(f, k) = Tagged("prepare_event", machine.prepare_event)
                               \o Tagged("prepare", f.cands[k].prepare)
        /\ PrepareFirst(f, k)

\* C16 as amended: the machine-level prepare_event callbacks run once per
\* processing of an event, before the first candidate is tried; for each
\* candidate that is tried its prepare callbacks run before its guards,
\* whether or not the guards pass.
C16_PrepareBeforeGuards ==
    \A f \in Running : \A k \in DOMAIN f.cands : GuardsReached(f, k) =>
        /\ Preparation(f, k) =
               (IF k = 1 THEN Tagged("prepare_event", machine.prepare_event) ELSE <<>>)
               \o Tagged("prepare", f.cands[k].prepare)
        /\ PrepareFirst(f, k)

\* The first candidate ran its prepare callback and declined, and the
\* guards of the second candidate have been reached.
C16_Witness ==
    \E f \in Running :
        /\ Declined(f, 1)
        /\ f.cands[1].prepare # <<>>
        /\ Steps(f, 1, {"prepare"}) = Tagged("prepare", f.cands[1].prepare)
        /\ GuardsReached(f, 2)

----------------------------------------------------------------------------
(* C17 *)

\* The candidates of frame f that wrote the model's state.
SetBy(f) == {k \in DOMAIN f.cands : Steps(f, k, {"set"}) # <<>>}

----------------------------------------------------------------------------
(* C18 *)

\* The event `trigger` holds, in its list for source s, a transition from
\* s to t.
HasTransition(trigger, s, t) ==
    /\ trigger \in DOMAIN events
    /\ s \in DOMAIN events[trigger]
    /\ \E i \in 1..Len(events[trigger][s]) :
           /\ events[trigger][s][i].source = s
           /\ events[trigger][s][i].dest = t

\* C18: on a machine with auto_transitions = true, after any sequence of
\* registration calls, for every pair (s, t) of registered states, s = t
\* included, the event to_<t> exists and holds a transition with source s
\* and destination t.
C18_AutoTransitionsComplete ==
    machine.auto_transitions =>
        \A s \in DOMAIN states, t \in DOMAIN states :
            HasTransition(ToName(t), s, t)

\* The three states were registered by more than one add_states call, the
\* last of them just now, and to_B loops on B.
C18_Witness ==
    /\ machine.auto_transitions
    /\ DOMAIN states = StateNames
    /\ lastCall.op = "add_states"
    /\ lastCall.n >= 2
    /\ HasTransition("to_B", "B", "B")
    /\ HasTransition("to_B", "C", "B")

----------------------------------------------------------------------------
(* C19 *)

\* C19: no registered event has the name of the model attribute, and an
\* add_transition call whose trigger is the model attribute name comes to
\* TriggerNameError and leaves the events, and so the transitions, as they
\* were.
C19_TriggerNameRejected ==
    /\ machine.model_attribute \notin DOMAIN events
    /\ (lastCall.op = "add_transition"
        /\ lastCall.trigger = machine.model_attribute) =>
            /\ lastCall.result = TriggerNameError
            /\ events = prevEvents

\* A call was rejected on a machine that already holds events.
C19_Witness ==
    /\ lastCall.op = "add_transition"
    /\ lastCall.trigger = machine.model_attribute
    /\ lastCall.result = TriggerNameError
    /\ prevEvents # <<>>

----------------------------------------------------------------------------
(* C20 *)

\* The transitions an events map holds under a trigger for a source.
TransitionsOf(evs, trigger, s) ==
    IF trigger \in DOMAIN evs /\ s \in DOMAIN evs[trigger]
    THEN evs[trigger][s] ELSE <<>>

\* How many times s is listed in a source argument.
Listed(source, s) == Cardinality({i \in 1..Len(source) : source[i] = s})

\* How many transitions the last add_transition call is to create under
\* `trigger` for source s.
Expected(trigger, s) ==
    IF trigger # lastCall.trigger THEN 0
    ELSE IF lastCall.source = <<WILDCARD_ALL>>
         THEN (IF s \in DOMAIN states THEN 1 ELSE 0)
         ELSE Listed(lastCall.source, s)

\* The last call appended exactly n transitions, each of source s, to the
\* list of `trigger` for s and left what the list held in place.
Appended(trigger, s, n) ==
    LET old == TransitionsOf(prevEvents, trigger, s)
        new == TransitionsOf(events, trigger, s)
    IN  /\ Len(new) = Len(old) + n
        /\ SubSeq(new, 1, Len(old)) = old
        /\ \A i \in (Len(old) + 1)..Len(new) : new[i].source = s

\* C20: a successful add_transition call appends, for the wildcard, exactly
\* one transition per state registered at the call, for a list exactly one
\* per listed source, each to events[trigger].transitions[that source], and
\* nothing else; an add_states call adds nothing under a trigger registered
\* by add_transition, so a state added later gets no transition of an
\* earlier call.
C20_OnePerExpandedSource ==
    /\ (lastCall.op = "add_transition" /\ lastCall.result = Ok) =>
           /\ lastCall.trigger \in DOMAIN events
           /\ \A trigger \in DOMAIN events, s \in StateNames :
                  Appended(trigger, s, Expected(trigger, s))
           /\ \A trigger \in DOMAIN events : DOMAIN events[trigger] \subseteq StateNames
    /\ lastCall.op = "add_states" =>
           \A trigger \in TriggerNames, s \in StateNames :
               Appended(trigger, s, 0)

\* A wildcard call on a machine with the states A and B, while "go" already
\* held a transition from each: each now has two, and C, not registered,
\* none.
C20_Witness ==
    /\ lastCall.op = "add_transition"
    /\ lastCall.result = Ok
    /\ lastCall.trigger = "go"
    /\ lastCall.source = <<WILDCARD_ALL>>
    /\ DOMAIN states = {"A", "B"}
    /\ Len(TransitionsOf(events, "go", "A")) = 2
    /\ Len(TransitionsOf(events, "go", "B")) = 2
    /\ TransitionsOf(events, "go", "C") = <<>>

----------------------------------------------------------------------------
(* C21 *)

\* The transitions the last call appended under `trigger` for source s.
AppendedBy(trigger, s) ==
    LET old == TransitionsOf(prevEvents, trigger, s)
        new == TransitionsOf(events, trigger, s)
    IN  SubSeq(new, Len(old) + 1, Len(new))

\* C21: every transition a successful add_transition call creates has, for
\* the reflexive wildcard, its own source as dest; for a literal dest, that
\* dest; for an absent dest, no dest (it is internal).
C21_DestExpansion ==
    (lastCall.op = "add_transition" /\ lastCall.result = Ok) =>
        \A s \in StateNames :
            LET created == AppendedBy(lastCall.trigger, s)
            IN  \A i \in 1..Len(created) :
                    /\ lastCall.dest = WILDCARD_SAME => created[i].dest = created[i].source
                    /\ lastCall.dest = NoDest => created[i].dest = NoDest
                    /\ lastCall.dest \notin {WILDCARD_SAME, NoDest} =>
                           created[i].dest = lastCall.dest

\* A reflexive call over two sources created A -> A and B -> B.
C21_Witness ==
    /\ lastCall.op = "add_transition"
    /\ lastCall.result = Ok
    /\ lastCall.dest = WILDCARD_SAME
    /\ Len(AppendedBy(lastCall.trigger, "A")) = 1
    /\ AppendedBy(lastCall.trigger, "A")[1].dest = "A"
    /\ Len(AppendedBy(lastCall.trigger, "B")) = 1
    /\ AppendedBy(lastCall.trigger, "B")[1].dest = "B"

----------------------------------------------------------------------------
(* C22 *)

\* The event names of an events map and of the one before the last call.
Triggers == DOMAIN events \cup DOMAIN prevEvents

\* The list the events held under (trigger, s) before the last call starts
\* the list they hold now.
KeptInFront(trigger, s) ==
    LET old == TransitionsOf(prevEvents, trigger, s)
        new == TransitionsOf(events, trigger, s)
    IN  /\ Len(old) <= Len(new)
        /\ SubSeq(new, 1, Len(old)) = old

\* The <<source, dest>> pairs an add_ordered_transitions call over the list
\* sts registers, in the order it registers them, on a machine with no
\* initial state.
PairsOf(sts, loop) ==
    [i \in 1..(Len(sts) - 1) |-> <<sts[i], sts[i + 1]>>]
    \o (IF loop THEN <<<<sts[Len(sts)], sts[1]>>>> ELSE <<>>)

\* The <<source, dest>> of each transition of a list.
Ends(list) == [i \in 1..Len(list) |-> <<list[i].source, list[i].dest>>]

\* C22: the list under each (event, source) is in registration order: what
\* a call registers comes after everything registered before the call, and
\* the transitions one add_ordered_transitions call registers for the same
\* source stand in the order the call registered them.
C22_RegistrationOrder ==
    /\ \A trigger \in Triggers, s \in StateNames : KeptInFront(trigger, s)
    /\ (lastCall.op = "add_ordered_transitions" /\ lastCall.result = Ok) =>
           \A s \in StateNames :
               Ends(AppendedBy(lastCall.trigger, s)) =
                   SelectSeq(PairsOf(StatesOf(lastCall.args, stateOrder),
                                     lastCall.args.loop),
                             LAMBDA p : p[1] = s)

\* An ordered call over A, B, A with the loop closed registered A -> B and
\* then A -> A behind a transition from A that an earlier call registered.
C22_Witness ==
    /\ lastCall.op = "add_ordered_transitions"
    /\ lastCall.result = Ok
    /\ TransitionsOf(prevEvents, "next_state", "A") # <<>>
    /\ Ends(AppendedBy("next_state", "A")) = <<<<"A", "B">>, <<"A", "A">>>>

----------------------------------------------------------------------------
(* C23 *)

\* Every transition's source, and its dest when it has one, names a
\* registered state.
WellNamed ==
    \A trigger \in DOMAIN events : \A s \in DOMAIN events[trigger] :
        \A i \in 1..Len(events[trigger][s]) :
            LET t == events[trigger][s][i]
            IN  /\ t.source \in DOMAIN states
                /\ t.dest # NoDest => t.dest \in DOMAIN states

\* Every state name the last call was given as a plain string names a
\* registered state.
ArgsRegistered ==
    /\ lastCall.op = "add_transition" =>
           /\ lastCall.source # <<WILDCARD_ALL>> =>
                  \A i \in 1..Len(lastCall.source) :
                      lastCall.source[i] \in DOMAIN states
           /\ lastCall.dest \in {WILDCARD_SAME, NoDest} \cup DOMAIN states
    /\ lastCall.op = "add_ordered_transitions" =>
           \A i \in 1..Len(lastCall.args.states.list) :
               lastCall.args.states.list[i] \in DOMAIN states

\* C23 as stated: after any sequence of registration calls every
\* transition's source and dest names a registered state, also when the
\* names were given to add_transition as plain strings.
C23_Original == WellNamed

\* C23 as amended: a registration call whose plain-string state names are
\* all registered keeps every transition's source and dest naming a
\* registered state (add_transition does not check such names, so a call
\* given a name that is not registered creates a transition that names it).
C23_NamesRegistered ==
    [][(WellNamed /\ ArgsRegistered') => WellNamed']_vars

\* add_transition was given the registered names A and B as plain strings,
\* and every transition names registered states.
C23_Witness ==
    /\ lastCall.op = "add_transition"
    /\ lastCall.result = Ok
    /\ lastCall.source = <<"A", "B">>
    /\ lastCall.dest = "B"
    /\ {"A", "B"} \subseteq DOMAIN states
    /\ WellNamed

----------------------------------------------------------------------------
(* C24 *)

\* The last call was an add_ordered_transitions call that raised nothing.
OrderedDone ==
    lastCall.op = "add_ordered_transitions" /\ lastCall.result = Ok

\* The state list the last add_ordered_transitions call was about: the one
\* given, else the registered states in the order they were added.
GivenStates ==
    IF lastCall.args.states.given THEN lastCall.args.states.list ELSE stateOrder

\* The list sts turned so that it starts at its k-th entry.
TurnedTo(sts, k) ==
    [i \in 1..Len(sts) |-> sts[((i + k - 2) % Len(sts)) + 1]]

\* The list the transitions follow: the state list turned so that it starts
\* at the first occurrence of the machine's initial state, or as it is when
\* the initial state is not in it.
Turned(sts) ==
    IF \E i \in 1..Len(sts) : sts[i] = machine.initial
    THEN TurnedTo(sts, CHOOSE i \in 1..Len(sts) :
                           /\ sts[i] = machine.initial
                           /\ \A j \in 1..(i - 1) : sts[j] # machine.initial)
    ELSE sts

\* The adjacent pairs of a list.
Adjacent(sts) == [i \in 1..(Len(sts) - 1) |-> <<sts[i], sts[i + 1]>>]

\* How many entries of a sequence equal x.
Occurrences(seq, x) == Cardinality({i \in 1..Len(seq) : seq[i] = x})

\* How many transitions from p[1] to p[2] the last call created under its
\* trigger.
Created(p) == Occurrences(Ends(AppendedBy(lastCall.trigger, p[1])), p)

\* The number of transitions the last call created under its trigger.
RECURSIVE Sum(_, _)
Sum(f, S) == IF S = {} THEN 0
             ELSE LET x == CHOOSE y \in S : TRUE IN f[x] + Sum(f, S \ {x})

CreatedTotal ==
    Sum([s \in StateNames |-> Len(AppendedBy(lastCall.trigger, s))], StateNames)

\* The call created one transition per adjacent pair of the list sts, one
\* more with loop = true and no more without, and none under another event.
OnePerPair(sts) ==
    /\ CreatedTotal = IF lastCall.args.loop THEN Len(sts) ELSE Len(sts) - 1
    /\ \A p \in StateNames \X StateNames :
           /\ Created(p) >= Occurrences(Adjacent(sts), p)
           /\ ~lastCall.args.loop => Created(p) = Occurrences(Adjacent(sts), p)
    /\ \A trigger \in Triggers \ {lastCall.trigger}, s \in StateNames :
           AppendedBy(trigger, s) = <<>>

\* C24 as stated: the call creates one transition for each adjacent pair of
\* the state list it is given (the registered states when none is given),
\* plus one with loop = true and none without.
C24_Original == OrderedDone => OnePerPair(GivenStates)

\* C24 as amended: the call creates one transition for each adjacent pair of
\* the state list turned so that the machine's initial state comes first,
\* plus one with loop = true and none without: n transitions with the loop,
\* n - 1 without.
C24_OnePerAdjacentPair == OrderedDone => OnePerPair(Turned(GivenStates))

\* The list A, B, C with initial state B and the loop closed: B -> C, C -> A
\* and A -> B.
C24_Witness ==
    /\ OrderedDone
    /\ machine.initial = "B"
    /\ lastCall.args.states = Given(<<"A", "B", "C">>)
    /\ lastCall.args.loop
    /\ Ends(AppendedBy("next_state", "B")) = <<<<"B", "C">>>>
    /\ Ends(AppendedBy("next_state", "C")) = <<<<"C", "A">>>>
    /\ Ends(AppendedBy("next_state", "A")) = <<<<"A", "B">>>>

----------------------------------------------------------------------------
(* C25 *)

\* C25: an add_ordered_transitions call over fewer than 2 states (the list
\* given, or the registered states when none is given) comes to
\* InsufficientStatesError and leaves the events, and so the transitions,
\* as they were.
C25_InsufficientStates ==
    (lastCall.op = "add_ordered_transitions" /\ Len(GivenStates) < 2) =>
        /\ lastCall.result = InsufficientStatesError
        /\ events = prevEvents

\* No list was given on a machine with one state, and a callback argument
\* of a length that fits no number of transitions was given with it.
C25_Witness ==
    /\ lastCall.op = "add_ordered_transitions"
    /\ ~lastCall.args.states.given
    /\ Len(stateOrder) = 1
    /\ lastCall.args.cb.before = Given(<<"x", "y", "z">>)
    /\ lastCall.result = InsufficientStatesError

----------------------------------------------------------------------------
(* C26 *)

\* The number of transitions the last add_ordered_transitions call is to
\* generate.
Generated == IF lastCall.args.loop THEN Len(GivenStates) ELSE Len(GivenStates) - 1

\* The i-th transition the last call generated: the one it created from the
\* i-th state of the turned list (the lists here name no state twice).
GeneratedAt(i) == AppendedBy(lastCall.trigger, Turned(GivenStates)[i])[1]

\* What a transition holds under the argument name k when it was given the
\* one value x for it.
Holding(k, x) ==
    CASE k = "conditions" -> <<Condition(x, TRUE)>>
      [] k = "unless" -> <<Condition(x, FALSE)>>
      [] OTHER -> <<x>>

\* The lengths of a given argument that are refused.
Refused(arg) == arg.given /\ Len(arg.list) \notin {1, Generated}

\* C26: in an add_ordered_transitions call over at least 2 states, an
\* argument among conditions, unless, before, after and prepare given as
\* one value is applied to every generated transition, given as a list as
\* long as the number of generated transitions it is applied position by
\* position, and given with any other length the call comes to
\* ArgumentsError and adds no transition.
C26_OrderedArguments ==
    (lastCall.op = "add_ordered_transitions" /\ Len(GivenStates) >= 2) =>
        LET cb == lastCall.args.cb
        IN  /\ (\E k \in ArgNames : Refused(cb[k])) =>
                   /\ lastCall.result = ArgumentsError
                   /\ events = prevEvents
            /\ (\A k \in ArgNames : ~Refused(cb[k])) =>
                   /\ lastCall.result = Ok
                   /\ \A k \in ArgNames : cb[k].given =>
                          \A i \in 1..Generated :
                              GeneratedAt(i)[k] =
                                  Holding(k, IF Len(cb[k].list) = 1 THEN cb[k].list[1]
                                             ELSE cb[k].list[i])

\* Three `before` callbacks for the three transitions of A, B, C with the
\* loop closed and initial state B: x went to B -> C, y to C -> A, z to
\* A -> B.
C26_Witness ==
    /\ OrderedDone
    /\ machine.initial = "B"
    /\ lastCall.args.states = Given(<<"A", "B", "C">>)
    /\ lastCall.args.cb.before = Given(<<"x", "y", "z">>)
    /\ AppendedBy("next_state", "B")[1].before = <<"x">>
    /\ AppendedBy("next_state", "C")[1].before = <<"y">>
    /\ AppendedBy("next_state", "A")[1].before = <<"z">>

----------------------------------------------------------------------------
(* C27 *)

\* The machine's initial state is among the states of the last call.
InitialAmong == \E i \in 1..Len(GivenStates) : GivenStates[i] = machine.initial

\* The destination the loop is closed to.
LoopDest ==
    IF ~InitialAmong THEN GivenStates[1]
    ELSE IF lastCall.args.loop_includes_initial THEN Turned(GivenStates)[1]
         ELSE Turned(GivenStates)[2]

\* C27: the transitions of an add_ordered_transitions call follow the state
\* list turned so that the machine's initial state comes first, the cyclic
\* order kept (the list as given when the initial state is not in it); the
\* loop-closing transition goes from the last state of the turned list to
\* its first state, or to its second state when loop_includes_initial is
\* false and the initial state is among the states, and to states[0] of
\* the list as given when the initial state is not among them.
C27_RotationAndLoop ==
    OrderedDone =>
        LET sts == Turned(GivenStates)
            n == Len(sts)
        IN  /\ InitialAmong => sts[1] = machine.initial
            /\ ~InitialAmong => sts = GivenStates
            /\ \A i \in 1..(n - 1) :
                   /\ Len(AppendedBy(lastCall.trigger, sts[i])) = 1
                   /\ GeneratedAt(i).dest = sts[i + 1]
            /\ lastCall.args.loop =>
                   /\ Len(AppendedBy(lastCall.trigger, sts[n])) = 1
                   /\ GeneratedAt(n).source = sts[n]
                   /\ GeneratedAt(n).dest = LoopDest
            /\ ~lastCall.args.loop => AppendedBy(lastCall.trigger, sts[n]) = <<>>

\* The list C, A on a machine with initial state A, the loop closed without
\* the initial state: A -> C, and the loop closes from C to C.
C27_Witness ==
    /\ OrderedDone
    /\ machine.initial = "A"
    /\ lastCall.args.states = Given(<<"C", "A">>)
    /\ lastCall.args.loop
    /\ ~lastCall.args.loop_includes_initial
    /\ Ends(AppendedBy("next_state", "A")) = <<<<"A", "C">>>>
    /\ Ends(AppendedBy("next_state", "C")) = <<<<"C", "C">>>>

----------------------------------------------------------------------------
(* C28 *)

\* The step is the state-change step of the running pipeline: its candidate
\* has a destination, its `conditions` were all evaluated and all passed,
\* and the step writes that destination to the pipeline's model and to no
\* other model.
StateChangeStep ==
    /\ stack # <<>>
    /\ Top.idx \in DOMAIN Top.cands
    /\ LET t == Trans(Top)
       IN  /\ t.dest # NoDest
           /\ \A i \in 1..Len(t.conditions) :
                  pred[t.conditions[i].func] = t.conditions[i].target
           /\ Steps(Top, Top.idx, {"cond"}) =
                  [i \in 1..Len(t.conditions) |-> <<"cond", t.conditions[i].func>>]
           /\ ~Declined(Top, Top.idx)
           /\ modelState' = [modelState EXCEPT ![Top.model] = t.dest]
    /\ Len(stack') = Len(stack)
    /\ stack'[Len(stack)].log = Append(Top.log, Entry(Top, "set", Trans(Top).dest))

\* The step is the return of a candidate's execute (a decline, or the end
\* of a firing one, internal ones included), the end of a pipeline with an
\* ignored or rejected invalid trigger, the append of a trigger to the
\* queue, or a registration call.
NoChangeStep ==
    \/ /\ stack # <<>> /\ Len(stack') = Len(stack)
       /\ Len(stack'[Len(stack)].log) > Len(Top.log)
       /\ stack'[Len(stack)].log[Len(stack'[Len(stack)].log)].kind = "executed"
    \/ /\ stack # <<>> /\ Len(stack') = Len(stack)
       /\ Top.pc = "trigger" /\ stack'[Len(stack)].pc = "ret"
    \/ Len(transition_queue') > Len(transition_queue)
    \/ lastCall' # lastCall

----------------------------------------------------------------------------
(* C29 *)

\* The guards of candidate k of frame f were evaluated to the end: execute
\* returned, or it went on to the callbacks after the guards.
GuardsOver(f, k) ==
    \/ Declined(f, k)
    \/ Fired(f, k)
    \/ f.idx = k /\ f.pc \in {"before", "exit", "enter", "after"}

\* The predicates an evaluation of the guard list g invokes: all of them in
\* order up to the first that fails, that one included.
Evaluated(g) ==
    LET fails == {i \in 1..Len(g) : pred[g[i].func] # g[i].target}
        n == IF fails = {} THEN Len(g)
             ELSE CHOOSE i \in fails : \A j \in fails : i <= j
    IN  [i \in 1..n |-> <<"cond", g[i].func>>]

\* C29: the predicates one transition invokes are those of `conditions` in
\* append order and then those of `unless` in append order, up to the
\* first failing one, and no predicate after it.
C29_GuardOrder ==
    \A f \in Running : \A k \in DOMAIN f.cands :
        GuardsOver(f, k) =>
            Steps(f, k, {"cond"}) =
                Evaluated(f.cands[k].conditions \o f.cands[k].unless)

----------------------------------------------------------------------------
(* Callbacks added to the states of a machine in use *)

\* How many add_callback calls are made.
MaxCallbacks == 1

\* enum StateTrigger: an enter or an exit callback.
EnterTrigger(func) == [kind |-> "enter", func |-> func]
ExitTrigger(func) == [kind |-> "exit", func |-> func]

\* The callbacks and the states the calls are made with.
HandlerNames == {"h"}
StateTriggers == {EnterTrigger(h) : h \in HandlerNames} \cup
                 {ExitTrigger(h) : h \in HandlerNames}
CallbackStates == {"A", "B"}

PushCallbackFront(list, func) == <<func>> \o list

\* Vec::push.
PushCallback(list, func) == Append(list, func)

\* State::add_callback: the match on the variant of trigger_func.
StateAddCallback(st, trigger_func) ==
    IF trigger_func.kind = "enter"
    THEN [st EXCEPT !.on_enter = PushCallback(@, trigger_func.func)]
    ELSE [st EXCEPT !.on_exit = PushCallback(@, trigger_func.func)]

AddCallbackCall(n, name, trigger_func) ==
    Call(n, "add_callback", <<name>>, "", <<>>, "", Ok)
        @@ [args |-> trigger_func]

\* The host calls add_callback(trigger_func) on the state `name` while no
\* pipeline is in flight (the call borrows the state mutably).
AddCallback(name, trigger_func) ==
    /\ stack = <<>>
    /\ lastCall.n < MaxCallbacks
    /\ states' = [states EXCEPT ![name] = StateAddCallback(@, trigger_func)]
    /\ lastCall' = AddCallbackCall(lastCall.n + 1, name, trigger_func)
    /\ UNCHANGED <<machine, events, stateOrder, prevEvents, Engine>>

StateNext ==
    \/ \E name \in CallbackStates, trigger_func \in StateTriggers :
           AddCallback(name, trigger_func)
    \/ \E e \in EventNames, m \in Models : HostTrigger(e, m)
    \/ Callback
    \/ CallbackRaise
    \/ MachineTrigger
    \/ BeginLoop
    \/ NextCandidate
    \/ EvalConditions
    \/ CheckCondition
    \/ ConditionsPassed
    \/ BeforeDone
    \/ SetState
    \/ EnterDone
    \/ ExecuteDone
    \/ FinalizeDone
    \/ ReturnSync
    \/ DrainStep

StateSpec == Init /\ [][StateNext]_vars

----------------------------------------------------------------------------
(* C30 *)

\* Candidate k of frame f came back from State::exit / State::enter.
Exited(f, k) ==
    \E i \in DOMAIN f.log : f.log[i].idx = k /\ f.log[i].kind = "set"
Entered(f, k) ==
    \/ Fired(f, k)
    \/ f.idx = k /\ f.pc = "after"

\* exit ran the on_exit callbacks of the source state and enter the
\* on_enter callbacks of the destination state: each one once, in the
\* order of the list, and nothing else.
EnterExitInOrder ==
    \A f \in Running : \A k \in DOMAIN f.cands :
        LET t == f.cands[k]
        IN  /\ Exited(f, k) =>
                Steps(f, k, {"exit"}) = Tagged("exit", states[t.source].on_exit)
            /\ Entered(f, k) /\ t.dest # NoDest =>
                Steps(f, k, {"enter"}) = Tagged("enter", states[t.dest].on_enter)

\* This step is an add_callback call.
AddCallbackStep == lastCall' # lastCall /\ lastCall'.op = "add_callback"

\* The call appended the callback to the list of its kind, after the
\* callbacks the list held, and left the other list and the other states
\* as they were.
AddCallbackEffect ==
    AddCallbackStep =>
        LET name == lastCall'.names[1]
            trigger_func == lastCall'.args
            old == states[name]
            new == states'[name]
        IN  /\ \A s \in DOMAIN states \ {name} : states'[s] = states[s]
            /\ trigger_func.kind = "enter" =>
                /\ new.on_enter = old.on_enter \o <<trigger_func.func>>
                /\ new.on_exit = old.on_exit
            /\ trigger_func.kind = "exit" =>
                /\ new.on_exit = old.on_exit \o <<trigger_func.func>>
                /\ new.on_enter = old.on_enter

\* C30: State.enter runs every on_enter callback and State.exit every
\* on_exit callback, each exactly once and in registration order;
\* State.add_callback appends an enter callback only to on_enter and an
\* exit callback only to on_exit, after all previously registered
\* callbacks.
C30_StateCallbacks == []EnterExitInOrder /\ [][AddCallbackEffect]_vars

\* An add_callback call gave B a second enter callback, and a transition
\* from A to B then ran the exit callbacks of A and both enter callbacks
\* of B to the end.
C30_Witness ==
    /\ lastCall.op = "add_callback"
    /\ lastCall.args = EnterTrigger("h")
    /\ states["B"].on_enter = <<"nB", "h">>
    /\ \E f \in Running :
           /\ Fired(f, 1)
           /\ f.cands[1].source = "A" /\ f.cands[1].dest = "B"
           /\ Steps(f, 1, {"exit", "enter"}) =
                  <<<<"exit", "xA">>, <<"enter", "nB">>, <<"enter", "h">>>>

----------------------------------------------------------------------------
(* C31 *)

\* The positions in frame f's log of the finalize_event callbacks' invocations.
FinalizePositions(f) == {i \in DOMAIN f.log : f.log[i].kind = "finalize"}

\* The positions of the errors raised in frame f's pipeline before any
\* finalize_event callback was invoked: by one of its callbacks or guards,
\* or by a trigger() call one of them made.
RaisePositions(f) ==
    {i \in DOMAIN f.log : /\ f.log[i].kind = "raise"
                          /\ \A j \in FinalizePositions(f) : i < j}

\* The errors among them that were raised inside the candidate loop, after
\* the prepare_event callbacks.
LoopRaisePositions(f) == {i \in RaisePositions(f) : f.log[i].idx >= 1}

\* A finalize_event callback of frame f raised.
FinalizerRaised(f) ==
    \E i \in DOMAIN f.log :
        /\ f.log[i].kind = "raise"
        /\ \E j \in FinalizePositions(f) : j < i

\* Every finalize_event callback of frame f was invoked, in order.
FinalizersRan(f) ==
    LET sel == SelectSeq(f.log, LAMBDA e : e.kind = "finalize")
    IN  [i \in DOMAIN sel |-> sel[i].name] = machine.finalize_event

\* What holds of frame f when the positions P hold an error: while the
\* finalize_event callbacks run they see the error and result = false, and
\* when they all returned the error goes to the caller, after they ran.
ErrorFinalized(f, P) ==
    P # {} =>
        /\ f.pc = "finalize" => f.error # NoError /\ ~f.result
        /\ f.pc = "ret" /\ ~FinalizerRaised(f) =>
              f.error # NoError /\ ~f.result /\ FinalizersRan(f)

\* While the finalize_event callbacks run after a transition fired they
\* see result = true and no error.
FiredFinalized(f) ==
    f.pc = "finalize" /\ FiredSet(f) # {} => f.result /\ f.error = NoError

\* The finalize_event callbacks leave the error and the result alone: what
\* they saw is what leaves the pipeline, unless one of them raises.
FinalizeKeeps ==
    \A i \in DOMAIN stack :
        (/\ i \in DOMAIN stack'
         /\ stack'[i].id = stack[i].id
         /\ stack[i].pc = "finalize"
         /\ ~FinalizerRaised(stack'[i]))
        => /\ stack'[i].error = stack[i].error
           /\ stack'[i].result = stack[i].result

C31_Finalized ==
    \A f \in Running : ErrorFinalized(f, LoopRaisePositions(f)) /\ FiredFinalized(f)

----------------------------------------------------------------------------
(* Invalid triggers under every setting of the ignore flags *)

\* ignore_invalid_triggers of a state: not set, or set to true or false.
IgnoreFlags == {<<>>, <<TRUE>>, <<FALSE>>}

\* The machine of Init with the machine-wide flag and the flags of A (which
\* has no `back`) and C (which has no `go`) set every way.
IgnoreInit ==
    /\ \E q \in BOOLEAN, g \in BOOLEAN :
           machine = [InitMachine(q) EXCEPT !.ignore_invalid_triggers = g]
    /\ \E a \in IgnoreFlags, c \in IgnoreFlags :
           states = [InitStates EXCEPT !["A"].ignore_invalid_triggers = a,
                                       !["C"].ignore_invalid_triggers = c]
    /\ events = InitEvents
    /\ \E c1 \in BOOLEAN : pred = [p \in PredNames |-> IF p = "c1" THEN c1 ELSE TRUE]
    /\ modelState = [m \in Models |-> "A"]
    /\ transition_queue = <<>>
    /\ stack = <<>>
    /\ calls = 0
    /\ order = <<>>
    /\ done = {}
    /\ lastRet = Returned(0, "none")
    /\ raises = 0
    /\ outcomes = <<>>
    /\ drainer = 0
    /\ stateOrder = <<"A", "B", "C">>
    /\ lastCall = NoCall
    /\ prevEvents = <<>>

\* Triggers made by the host, with callbacks that return or raise.
IgnoreNext ==
    \/ \E e \in EventNames, m \in Models : HostTrigger(e, m)
    \/ Callback
    \/ CallbackRaise
    \/ MachineTrigger
    \/ BeginLoop
    \/ NextCandidate
    \/ EvalConditions
    \/ CheckCondition
    \/ ConditionsPassed
    \/ BeforeDone
    \/ SetState
    \/ EnterDone
    \/ ExecuteDone
    \/ FinalizeDone
    \/ ReturnSync
    \/ DrainStep

IgnoreSpec == IgnoreInit /\ [][IgnoreNext]_vars

----------------------------------------------------------------------------
(* C32 *)

\* The invalid trigger of frame f was ignored: it returned false; or it was
\* rejected with MachineError.
Ignored(f) == f.error = NoError /\ ~f.result
Rejected(f) == f.error = MachineError

\* C32: for an invalid trigger the flag of the model's current state
\* decides when it is set, true or false, whatever the machine-wide flag
\* is; the machine-wide flag decides only when the state has none.
C32_EffectiveIgnore ==
    \A f \in Frames : InvalidTrigger(f) =>
        LET own == states[f.state0].ignore_invalid_triggers
        IN  /\ own = <<TRUE>> => Ignored(f)
            /\ own = <<FALSE>> => Rejected(f)
            /\ own = <<>> /\ machine.ignore_invalid_triggers => Ignored(f)
            /\ own = <<>> /\ ~machine.ignore_invalid_triggers => Rejected(f)

\* `back` was refused in A, whose flag is false, on a machine whose flag
\* is true.
C32_Witness ==
    /\ machine.ignore_invalid_triggers
    /\ states["A"].ignore_invalid_triggers = <<FALSE>>
    /\ \E f \in Frames : InvalidTrigger(f) /\ f.state0 = "A" /\ Rejected(f)

----------------------------------------------------------------------------
(* Machine::dispatch on a machine with two models *)

\* How many dispatch calls are made.
MaxDispatch == 1

\* self.models, in the order the models were added.
DispatchModels == <<"m1", "m2">>

Pending == "pending"

\* all([...]) over a generator instead of a list: it stops at the first
\* result that is false.
DispatchGoesOnLazy(results, models) ==
    /\ Len(results) < Len(models)
    /\ \A i \in DOMAIN results : results[i] = "true"

\* The list comprehension of dispatch: it goes on to the next model as long
\* as there is one.
DispatchGoesOn(results, models) == Len(results) < Len(models)

\* all(results)
All(results) == \A i \in DOMAIN results : results[i] = "true"

\* A dispatch call: the number of the first trigger() call it makes, the
\* models whose trigger was called and what the triggers returned so far,
\* and what dispatch came to.
DispatchCall(n, trigger, first, called, results, result) ==
    Call(n, "dispatch", <<>>, trigger, <<>>, "", result)
        @@ [first |-> first, called |-> called, results |-> results]

InDispatch == lastCall.op = "dispatch" /\ lastCall.result = Pending

\* The host calls dispatch(trigger).
DispatchBegin(trigger) ==
    /\ stack = <<>>
    /\ ~InDispatch
    /\ lastCall.n < MaxDispatch
    /\ lastCall' = DispatchCall(lastCall.n + 1, trigger, calls + 1, <<>>, <<>>, Pending)
    /\ UNCHANGED <<machine, states, events, stateOrder, prevEvents, Engine>>

\* dispatch calls the trigger of the next model.
DispatchTrigger ==
    /\ stack = <<>>
    /\ InDispatch
    /\ Len(lastCall.called) = Len(lastCall.results)
    /\ DispatchGoesOn(lastCall.results, DispatchModels)
    /\ LET m == DispatchModels[Len(lastCall.called) + 1]
       IN  /\ Process(lastCall.trigger, m, 0, stack)
           /\ lastCall' = [lastCall EXCEPT !.called = Append(@, m)]
    /\ UNCHANGED <<machine, states, events, pred, stateOrder, prevEvents,
                   modelState, order, done, raises, outcomes>>

\* The trigger of a model returned to dispatch: its result joins the list,
\* or its error ends the call.
DispatchCollect ==
    /\ stack = <<>>
    /\ InDispatch
    /\ Len(lastCall.called) > Len(lastCall.results)
    /\ lastCall' = IF lastRet.val \in {"true", "false"}
                   THEN [lastCall EXCEPT !.results = Append(@, lastRet.val)]
                   ELSE [lastCall EXCEPT !.result = lastRet.val]
    /\ UNCHANGED <<machine, states, events, stateOrder, prevEvents, Engine>>

\* dispatch returns all(results).
DispatchReturn ==
    /\ stack = <<>>
    /\ InDispatch
    /\ Len(lastCall.called) = Len(lastCall.results)
    /\ ~DispatchGoesOn(lastCall.results, DispatchModels)
    /\ lastCall' = [lastCall EXCEPT
                       !.result = IF All(lastCall.results) THEN "true" ELSE "false"]
    /\ UNCHANGED <<machine, states, events, stateOrder, prevEvents, Engine>>

\* The machine of Init with two models, each in any of the states.
DispatchInit ==
    /\ \E q \in BOOLEAN : machine = InitMachine(q)
    /\ states = InitStates
    /\ events = InitEvents
    /\ pred \in [PredNames -> BOOLEAN]
    /\ modelState \in [Range(DispatchModels) -> StateNames]
    /\ transition_queue = <<>>
    /\ stack = <<>>
    /\ calls = 0
    /\ order = <<>>
    /\ done = {}
    /\ lastRet = Returned(0, "none")
    /\ raises = 0
    /\ outcomes = <<>>
    /\ drainer = 0
    /\ stateOrder = <<"A", "B", "C">>
    /\ lastCall = NoCall
    /\ prevEvents = <<>>

DispatchNext ==
    \/ \E trigger \in EventNames : DispatchBegin(trigger)
    \/ DispatchTrigger
    \/ DispatchCollect
    \/ DispatchReturn
    \/ Callback
    \/ CallbackRaise
    \/ MachineTrigger
    \/ BeginLoop
    \/ NextCandidate
    \/ EvalConditions
    \/ CheckCondition
    \/ ConditionsPassed
    \/ BeforeDone
    \/ SetState
    \/ EnterDone
    \/ ExecuteDone
    \/ FinalizeDone
    \/ ReturnSync
    \/ DrainStep

DispatchSpec == DispatchInit /\ [][DispatchNext]_vars

----------------------------------------------------------------------------
(* C33 *)

\* dispatch returned a truth value.
DispatchDone == lastCall.op = "dispatch" /\ lastCall.result \in {"true", "false"}

\* The last n entries of sequence s.
LastOf(s, n) == SubSeq(s, Len(s) - n + 1, Len(s))

\* C33: when dispatch returns, the trigger was called on every model of
\* the machine in the order of the model list, whatever the earlier
\* triggers returned (the pipelines of these calls are the last ones that
\* started, one per model, in the order of the calls), and dispatch
\* returns true exactly when every trigger returned true.
C33_Dispatch ==
    DispatchDone =>
        LET n == Len(DispatchModels)
        IN  /\ lastCall.called = DispatchModels
            /\ Len(lastCall.results) = n
            /\ calls = lastCall.first + n - 1
            /\ Len(order) >= n
            /\ LastOf(order, n) = [i \in 1..n |-> lastCall.first + i - 1]
            /\ lastCall.result = "true" <=>
                  \A i \in 1..n : lastCall.results[i] = "true"

\* The trigger of the first model returned false, the trigger of the second
\* model was called all the same and moved it from A to B, and dispatch
\* returned false.
C33_Witness ==
    /\ DispatchDone
    /\ lastCall.trigger = "go"
    /\ lastCall.results = <<"false", "true">>
    /\ lastCall.result = "false"
    /\ modelState["m2"] = "B"
    /\ outcomes = <<"false", "true">>

----------------------------------------------------------------------------
(* Machine::remove_transition, modelled from the reference body in the     *)
(* comments of machine.rs                                                  *)

KeyError == "KeyError"

\* The trigger, source and dest arguments of remove_transition; a filter is
\* the wildcard or the listified names.
RemoveTriggers == {"go", "to_A"}
RemoveSources == {<<WILDCARD_ALL>>, <<"A">>}
RemoveDests == {<<WILDCARD_ALL>>, <<"B">>}

\* A condition that keeps a transition only if both filters miss it.
KeepsIfBoth(t, source, dest) ==
    /\ source # <<WILDCARD_ALL>> /\ t.source \notin Range(source)
    /\ dest # <<WILDCARD_ALL>> /\ t.dest \notin Range(dest)

\* The condition of the inner comprehension:
\* `(source != "*" and t.source not in source) or
\*  (dest != "*" and t.dest not in dest)`
Keeps(t, source, dest) ==
    \/ source # <<WILDCARD_ALL>> /\ t.source \notin Range(source)
    \/ dest # <<WILDCARD_ALL>> /\ t.dest \notin Range(dest)

\* tmp: the lists of the event filtered by the condition, without the keys
\* whose list came out empty.
RemainingTransitions(transitions, source, dest) ==
    LET kept == [k \in DOMAIN transitions |->
                    SelectSeq(transitions[k], LAMBDA t : Keeps(t, source, dest))]
        keys == {k \in DOMAIN kept : Len(kept[k]) > 0}
    IN  [k \in keys |-> kept[k]]

\* `if tmp: self.events[trigger].transitions = ...` else
\* `del self.events[trigger]`
RemoveFrom(evs, trigger, source, dest) ==
    LET tmp == RemainingTransitions(evs[trigger], source, dest)
    IN  IF DOMAIN tmp # {}
        THEN [evs EXCEPT ![trigger] = tmp]
        ELSE [e \in DOMAIN evs \ {trigger} |-> evs[e]]

\* Machine::remove_transition(trigger, source, dest); self.events[trigger]
\* fails with KeyError for a trigger that is not registered.
RemoveTransition(trigger, source, dest) ==
    /\ lastCall.n < MaxReg
    /\ IF trigger \in DOMAIN events
       THEN /\ events' = RemoveFrom(events, trigger, source, dest)
            /\ lastCall' = Call(lastCall.n + 1, "remove_transition", <<>>, trigger,
                                source, dest, Ok)
       ELSE /\ events' = events
            /\ lastCall' = Call(lastCall.n + 1, "remove_transition", <<>>, trigger,
                                source, dest, KeyError)
    /\ prevEvents' = events
    /\ UNCHANGED <<machine, states, stateOrder, Engine>>

\* Registration calls with removals among them, on a machine with the
\* default model attribute.
RemoveInit == BuildInit /\ machine.model_attribute = "state"

RemoveNext ==
    \/ \E names \in StatesArgs : AddStates(names)
    \/ \E trigger \in TriggerNames, source \in SourceArgs, dest \in DestArgs :
           AddTransition(trigger, source, dest)
    \/ \E trigger \in RemoveTriggers, source \in RemoveSources, dest \in RemoveDests :
           RemoveTransition(trigger, source, dest)

RemoveSpec == RemoveInit /\ [][RemoveNext]_vars

----------------------------------------------------------------------------
(* C34 *)

\* The last call was a remove_transition that found its event.
Removed == lastCall.op = "remove_transition" /\ lastCall.result = Ok

\* Transition t matches the filters of the last call: its source is among
\* the sources asked for and its dest among the dests, the wildcard
\* standing for every name.
Matches(t) ==
    /\ lastCall.source = <<WILDCARD_ALL>> \/ t.source \in Range(lastCall.source)
    /\ lastCall.dest = <<WILDCARD_ALL>> \/ t.dest \in Range(lastCall.dest)

\* The state names that are the source of some list of the events evs.
SourcesIn(evs) == UNION {DOMAIN evs[e] : e \in DOMAIN evs}

\* C34: remove_transition(trigger, source, dest) takes out of the event
\* exactly the transitions whose source matches the source filter and
\* whose dest matches the dest filter, and keeps all the others in their
\* order; the other events are as they were; and when no transition of the
\* event is left the event is gone from the machine, so that its name is
\* not the name of a trigger any more.
C34_RemoveTransition ==
    Removed =>
        LET trigger == lastCall.trigger
        IN  /\ \A s \in SourcesIn(prevEvents) :
                  TransitionsOf(events, trigger, s) =
                      SelectSeq(TransitionsOf(prevEvents, trigger, s),
                                LAMBDA t : ~Matches(t))
            /\ \A e \in DOMAIN prevEvents \ {trigger} :
                  e \in DOMAIN events /\ events[e] = prevEvents[e]
            /\ DOMAIN events \subseteq DOMAIN prevEvents
            /\ trigger \in DOMAIN events <=>
                  \E s \in SourcesIn(prevEvents) :
                      \E i \in DOMAIN TransitionsOf(prevEvents, trigger, s) :
                          ~Matches(TransitionsOf(prevEvents, trigger, s)[i])

\* `go` held the transitions A->B and A->A from A; remove_transition with
\* dest B took out the first and kept the second.
C34_Witness ==
    /\ Removed
    /\ lastCall.trigger = "go"
    /\ lastCall.dest = <<"B">>
    /\ Len(TransitionsOf(prevEvents, "go", "A")) = 2
    /\ TransitionsOf(prevEvents, "go", "A")[1].dest = "B"
    /\ Len(TransitionsOf(events, "go", "A")) = 1
    /\ TransitionsOf(events, "go", "A")[1].dest = "A"

----------------------------------------------------------------------------
(* Dispatch on a machine with a transition to a state that is not          *)
(* registered                                                              *)

\* The machine of Init after add_transition("back", "A", "D", before="tb",
\* after="ta"): D is not registered, and add_transition does not look up
\* the names it is given.
UnregisteredInit ==
    /\ \E q \in BOOLEAN : machine = InitMachine(q)
    /\ states = InitStates
    /\ events = AddTransitionWith(InitEvents, <<"A", "B", "C">>, "back", <<"A">>,
                                  "D", CallbackArgs(<<>>, <<>>, <<"tb">>, <<"ta">>, <<>>))
    /\ pred \in [PredNames -> BOOLEAN]
    /\ modelState = [m \in Models |-> "A"]
    /\ transition_queue = <<>>
    /\ stack = <<>>
    /\ calls = 0
    /\ order = <<>>
    /\ done = {}
    /\ lastRet = Returned(0, "none")
    /\ raises = 0
    /\ outcomes = <<>>
    /\ drainer = 0
    /\ stateOrder = <<"A", "B", "C">>
    /\ lastCall = NoCall
    /\ prevEvents = InitEvents

UnregisteredSpec == UnregisteredInit /\ [][Next]_vars

----------------------------------------------------------------------------
(* C35 *)

\* The destination of transition t is the name of no registered state.
Unregistered(t) == t.dest # NoDest /\ t.dest \notin DOMAIN states

\* Candidate k of frame f got as far as change_state and past the exit
\* callbacks of its source, and its pipeline is over.
ChangeAttempted(f, k) ==
    /\ f.pc = "ret"
    /\ f.idx = k
    /\ Len(Steps(f, k, {"before"})) = Len(BeforeCallbacks(f.cands[k]))
    /\ Len(Steps(f, k, {"exit"})) = Len(states[f.cands[k].source].on_exit)
    /\ \A i \in DOMAIN f.log :
           f.log[i].idx = k /\ f.log[i].kind = "raise" => f.log[i].name = "get_state"

\* C35: the state attribute of every model is the name of a registered
\* state, whatever registration calls and triggers came before; a
\* transition whose destination is not registered fails with
\* RegisteredStateError and does not write the name into the model.
C35_ModelStateRegistered ==
    /\ \A m \in DOMAIN modelState : modelState[m] \in DOMAIN states
    /\ \A f \in Running : \A k \in DOMAIN f.cands :
           Unregistered(f.cands[k]) =>
               /\ Steps(f, k, {"set"}) = <<>>
               /\ ChangeAttempted(f, k) => f.error = RegisteredStateError

----------------------------------------------------------------------------
(* C36 *)

\* No trigger() call is in flight.
Idle == stack = <<>>

\* The host's trigger() call of this step runs its event at once: its
\* pipeline is the one on the stack, and the call is the one draining the
\* queue, which holds its entry only.
RunsAtOnce ==
    /\ Len(stack') = 1
    /\ stack'[1].id = calls'
    /\ drainer' = calls'
    /\ Len(transition_queue') = 1
    /\ transition_queue'[1].id = calls'

\* C36: with queued = true the transition queue is empty whenever no
\* trigger() call is in flight, after a drain that completed and after a
\* drain that an error ended alike; so a trigger() call made then, the
\* first one after a failed drain included, executes its event at once and
\* is not left in the queue behind stale entries.
C36_QueueEmptyWhenIdle ==
    /\ [](machine.queued /\ Idle => transition_queue = <<>> /\ drainer = 0)
    /\ [][machine.queued /\ Idle /\ calls' = calls + 1 => RunsAtOnce]_vars

\* Queued: a drain was ended by an error, and the pipeline of the next
\* trigger() call of the host is under way.
C36_Witness ==
    /\ machine.queued
    /\ lastRet.val \in Errors
    /\ stack # <<>>
    /\ Top.id > lastRet.id
    /\ drainer = Top.id
    /\ Top.pc = "finalize"

----------------------------------------------------------------------------
(* C37 *)

\* C37: with auto_transitions = true and the model attribute named
\* "state", after any sequence of add_states calls, one that adds a
\* registered name again included, the event to_<t> of every registered
\* state t holds exactly one transition for every registered source state.
C37_OneAutoTransitionPerSource ==
    (machine.auto_transitions /\ machine.model_attribute = "state") =>
        \A t \in DOMAIN states : \A s \in DOMAIN states :
            Len(TransitionsOf(events, ToName(t), s)) = 1

----------------------------------------------------------------------------
(* Dispatch of the auto transitions of a machine built by add_states       *)

\* How many trigger() calls are made on the machine.
MaxAutoCalls == 2

\* The names the states are added with, one of them twice in the last.
AutoStatesArgs == {<<"A", "B">>, <<"A", "B", "A">>}

\* The state with an enter and an exit callback of its own.
WithCallbacks(st) ==
    StateAddCallback(StateAddCallback(st, EnterTrigger("n" \o st.name)),
                     ExitTrigger("x" \o st.name))

\* A machine with auto_transitions = true, in either dispatch mode and with
\* either name of the model attribute, with an after_state_change callback
\* and no other machine-wide callback, after add_states(names) and an
\* add_callback of each kind on every state; the model is in any of the
\* registered states.
AutoInit ==
    /\ \E q \in BOOLEAN, attr \in ModelAttributes, names \in AutoStatesArgs :
           LET m == [NewMachine(TRUE, attr) EXCEPT !.queued = q,
                                                  !.prepare_event = <<>>,
                                                  !.before_state_change = <<>>,
                                                  !.finalize_event = <<>>]
               reg == AddStatesTo(Reg(<<>>, <<>>, <<>>), m, names)
           IN  /\ machine = m
               /\ states = [s \in DOMAIN reg.states |-> WithCallbacks(reg.states[s])]
               /\ stateOrder = reg.keys
               /\ events = reg.events
               /\ prevEvents = reg.events
               /\ modelState \in [Models -> DOMAIN reg.states]
    /\ lastCall = NoCall
    /\ pred = [p \in PredNames |-> TRUE]
    /\ transition_queue = <<>>
    /\ stack = <<>>
    /\ calls = 0
    /\ order = <<>>
    /\ done = {}
    /\ lastRet = Returned(0, "none")
    /\ raises = 0
    /\ outcomes = <<>>
    /\ drainer = 0

\* The triggers are the events the machine holds.
AutoNext ==
    \/ \E e \in DOMAIN events, m \in Models :
           calls < MaxAutoCalls /\ HostTrigger(e, m)
    \/ \E e \in DOMAIN events, m \in Models :
           calls < MaxAutoCalls /\ CallbackTrigger(e, m)
    \/ Callback
    \/ CallbackReturn
    \/ CallbackRaise
    \/ MachineTrigger
    \/ BeginLoop
    \/ NextCandidate
    \/ EvalConditions
    \/ ConditionsPassed
    \/ BeforeDone
    \/ SetState
    \/ EnterDone
    \/ ExecuteDone
    \/ FinalizeDone
    \/ ReturnSync
    \/ DrainStep

AutoSpec == AutoInit /\ [][AutoNext]_vars

----------------------------------------------------------------------------
(* C38 *)

\* Event e is an auto-generated event of the registered state t.
AutoEventOf(e, t) ==
    /\ t \in DOMAIN states
    /\ e \in {ToName(t), MethodName(machine.model_attribute, t)}

\* The pipeline of frame f has looked up its candidates.
Started(f) == f.state0 # ""

\* What the pipeline of an auto-generated event of t comes to: it is never
\* an invalid trigger; and when no callback raises, its first candidate
\* fires, having exited the state the model was in, written t and entered
\* t.  `left` says whether the model is then in t.
AutoFires(left(_)) ==
    \A f \in Frames : \A t \in DOMAIN states :
        (AutoEventOf(f.ev, t) /\ Started(f)) =>
            /\ f.cands # <<>>
            /\ f.error # MachineError \/ \E i \in DOMAIN f.log : f.log[i].kind = "raise"
            /\ (f.pc = "ret" /\ f.error = NoError) =>
                  /\ f.result
                  /\ Fired(f, 1)
                  /\ Steps(f, 1, {"exit", "set", "enter"}) =
                         Tagged("exit", states[f.state0].on_exit)
                         \o <<<<"set", t>>>>
                         \o Tagged("enter", states[t].on_enter)
                  /\ left(f) => modelState[f.model] = t

AnyPipeline(f) == TRUE
NotReentered(f) == ~f.nested

----------------------------------------------------------------------------
(* Dispatch of next_state on a machine with ordered transitions            *)

\* The states argument of the add_ordered_transitions call.
CycleStatesArgs == {NotGiven, Given(<<"C", "A", "B">>), Given(<<"B", "A">>)}

\* A machine constructed with the states A, B, C and an initial state, in
\* either dispatch mode, with a before_state_change and an
\* after_state_change callback; the model is in the initial state.
CycleInit ==
    /\ \E q \in BOOLEAN, initial \in StateNames :
           LET m == [NewMachine(FALSE, "state") EXCEPT !.initial = initial,
                                                       !.queued = q,
                                                       !.prepare_event = <<>>,
                                                       !.finalize_event = <<>>]
               reg == Constructed(m, <<"A", "B", "C">>, initial)
           IN  /\ machine = m
               /\ states = reg.states
               /\ stateOrder = reg.keys
               /\ events = reg.events
               /\ prevEvents = reg.events
               /\ modelState = [x \in Models |-> initial]
    /\ lastCall = NoCall
    /\ pred = [p \in PredNames |-> TRUE]
    /\ transition_queue = <<>>
    /\ stack = <<>>
    /\ calls = 0
    /\ order = <<>>
    /\ done = {}
    /\ lastRet = Returned(0, "none")
    /\ raises = 0
    /\ outcomes = <<>>
    /\ drainer = 0

\* One add_ordered_transitions call without guards and callbacks, then
\* next_state triggers made by the host one after the other.
CycleNext ==
    \/ \E sts \in CycleStatesArgs, loop \in BOOLEAN :
           /\ lastCall.n = 0
           /\ AddOrderedTransitions(OrderedArgs(sts, "next_state", loop, TRUE,
                                                NoOrderedArgs))
    \/ \E m \in Models :
           /\ "next_state" \in DOMAIN events
           /\ HostTrigger("next_state", m)
    \/ Callback
    \/ CallbackRaise
    \/ MachineTrigger
    \/ BeginLoop
    \/ NextCandidate
    \/ EvalConditions
    \/ ConditionsPassed
    \/ BeforeDone
    \/ SetState
    \/ EnterDone
    \/ ExecuteDone
    \/ FinalizeDone
    \/ ReturnSync
    \/ DrainStep

CycleSpec == CycleInit /\ [][CycleNext]_vars

----------------------------------------------------------------------------
(* C39 *)

\* The smaller of two numbers.
Min(a, b) == IF a < b THEN a ELSE b

\* C39: after add_ordered_transitions without guards over n distinct
\* states with the initial state among them, a model that started in the
\* initial state is, after k next_state triggers made one after the other
\* (none of them ended by a raising callback), in the state k places on in
\* the turned list, counted round the list, when loop = true; with
\* loop = false the first n - 1 triggers take it to the last state and
\* every further one is an invalid trigger there.
C39_OrderedCycle ==
    (OrderedDone /\ InitialAmong /\ Idle /\ raises = 0) =>
        LET sts == Turned(GivenStates)
            n == Len(sts)
            k == calls
        IN  \A m \in Models :
                IF lastCall.args.loop
                THEN /\ modelState[m] = sts[(k % n) + 1]
                     /\ \A id \in 1..k : outcomes[id] = "true"
                ELSE /\ modelState[m] = sts[Min(k, n - 1) + 1]
                     /\ \A id \in 1..k :
                           outcomes[id] = IF id <= n - 1 THEN "true" ELSE MachineError

\* The list C, A, B with the initial state B and loop = true: three
\* next_state triggers took the model from B round to B again.
C39_Witness ==
    /\ OrderedDone
    /\ lastCall.args.loop
    /\ GivenStates = <<"C", "A", "B">>
    /\ machine.initial = "B"
    /\ Idle
    /\ raises = 0
    /\ calls = 3
    /\ outcomes = <<"true", "true", "true">>
    /\ modelState = [m \in Models |-> "B"]

----------------------------------------------------------------------------
(* C40 *)

\* The phases of a pipeline before the state is written.
EarlyPhases == {"prepare_event", "prepare", "cond", "before", "exit"}

\* An error was raised in frame f's pipeline by a prepare callback, a guard
\* predicate, a before callback or an exit callback of the source state
\* (the log entry before a raise is the invocation that raised).
RaisedEarly(f) ==
    \E i \in DOMAIN f.log :
        /\ f.log[i].kind = "raise"
        /\ i > 1
        /\ f.log[i - 1].kind \in EarlyPhases

\* What holds when such an error reaches the caller: no enter and no after
\* callback of the pipeline has run and the pipeline has not written the
\* state.  `kept` says whether the model is then in the source state still.
EarlyErrorKeepsState(kept(_)) ==
    \A f \in Frames :
        (f.pc = "ret" /\ RaisedEarly(f)) =>
            /\ f.error # NoError
            /\ \A i \in DOMAIN f.log : f.log[i].kind \notin {"set", "enter", "after"}
            /\ kept(f) => modelState[f.model] = f.state0

\* C40 as stated: the model is in the source state when the error reaches
\* the caller.
C40_Original == EarlyErrorKeepsState(AnyPipeline)

\* C40: if a prepare callback, a guard predicate, a before callback or an
\* exit callback of the source state raises, no enter callback of the
\* destination and no after callback has run when the error reaches the
\* caller, the pipeline has not written the state, and the model is in the
\* source state still unless a callback of the pipeline called trigger()
\* with queued = false and the nested transition wrote the state.
C40_EarlyErrorKeepsState == EarlyErrorKeepsState(NotReentered)

\* The exit callback of A raised during `go`: the error is on its way to
\* the caller and the model is in A.
C40_Witness ==
    \E f \in Frames :
        /\ f.pc = "ret"
        /\ f.error = CallbackError
        /\ ~f.nested
        /\ f.state0 = "A"
        /\ modelState[f.model] = "A"
        /\ \E i \in DOMAIN f.log :
               /\ f.log[i] = [idx |-> 1, kind |-> "raise", name |-> "xA"]
               /\ f.log[i - 1].kind = "exit"

====
